---------------------------- MODULE Spec2Model ----------------------------
(***************************************************************************)
(* Session handoff pipeline of the gateway (session-handoff module):       *)
(* performSessionHandoff and the summary lookup functions, over a model of *)
(* the handoff directory.                                                  *)
(*                                                                         *)
(* Invocations of performSessionHandoff run on one JavaScript event loop:  *)
(* a synchronous stretch of an invocation runs to completion (the variable *)
(* running names the invocation that holds the thread), and invocations    *)
(* interleave, with each other and with timer callbacks, only at an await. *)
(* Strings that the code trims, joins or concatenates are sequences of     *)
(* one-character strings.                                                  *)
(***************************************************************************)
EXTENDS Integers, Sequences, FiniteSets, TLC

\* ------------------------------------------------------------------ bounds
\* largest messages.length a transcript read returns
MaxMessages == 2
\* largest number of content blocks in a completion response
MaxBlocks == 2
\* largest value of the wall clock (Date.now / file birthtime)
MaxClock == 1

\* -------------------------------------------------------- program constants
HANDOFF_TIMEOUT_MS == 120000

Procs == {"h1", "h2"}
Sessions == {"s1", "s2"}
None == "none"
\* null, among values that are strings
Null == <<"null">>

\* resolveDefaultModelForAgent({cfg, agentId})
modelRef == [provider |-> "agent", model |-> "default"]

fallbackRefs ==
  << modelRef,
     [provider |-> "anthropic", model |-> "claude-sonnet-4-5"],
     [provider |-> "anthropic", model |-> "claude-haiku-4-5"],
     [provider |-> "google", model |-> "gemini-2.0-flash"],
     [provider |-> "openai", model |-> "gpt-4o-mini"] >>

NumRefs == Len(fallbackRefs)

\* ------------------------------------------------------------------ strings
Whitespace == {" ", "\n"}

RECURSIVE TrimStart(_)
TrimStart(s) ==
  IF s = <<>> THEN <<>>
  ELSE IF Head(s) \in Whitespace THEN TrimStart(Tail(s)) ELSE s

RECURSIVE TrimEnd(_)
TrimEnd(s) ==
  IF s = <<>> THEN <<>>
  ELSE IF s[Len(s)] \in Whitespace THEN TrimEnd(SubSeq(s, 1, Len(s) - 1)) ELSE s

\* String.prototype.trim
Trim(s) == TrimEnd(TrimStart(s))

\* Array.prototype.join on a sequence of strings
RECURSIVE Join(_, _)
Join(parts, sep) ==
  IF parts = <<>> THEN <<>>
  ELSE IF Len(parts) = 1 THEN parts[1]
  ELSE parts[1] \o sep \o Join(Tail(parts), sep)

\* sequences over S of length at most n
SeqsUpTo(S, n) == UNION { [1..k -> S] : k \in 0..n }

\* --------------------------------------------------- collaborators' answers
\* resolveModel(provider, model, undefined, cfg): a model, no model, or a throw
ResolveOutcomes == {"model", "nomodel", "throw"}

\* getApiKeyForModel({model, cfg}): auth.apiKey a string or undefined, or a throw
AuthOutcomes ==
  { [kind |-> "key", apiKey |-> k] :
      k \in { <<"k">>, <<" ", "k", " ">>, <<" ", " ">>, <<>> } }
  \cup { [kind |-> "undefined", apiKey |-> <<>>], [kind |-> "throw", apiKey |-> <<>>] }

\* content blocks of a completion response
BlockTexts == { <<>>, <<" ">>, <<" ", "a", " ">> }
Blocks == [type : {"text", "toolCall"}, text : BlockTexts]
Responses == SeqsUpTo(Blocks, MaxBlocks)

VARIABLES
  setup,                   \* the installation: which invocation slots and
                           \* sessions the callers use, and the candidates
                           \* the loaded config (cfg) has credentials for,
                           \* and whether a caller invokes again after an
                           \* outcome
  pc,                      \* position of each invocation
  running,                 \* the invocation that holds the thread, or None
  clock,                   \* wall clock
  sessionId,               \* params.sessionId
  messageCount,            \* messages.length
  idx,                     \* position of the for loop in fallbackRefs
  probed,                  \* candidates probed so far, with what the probe found
  apiKey,                  \* apiKey (<<>> while undefined)
  usedRef,                 \* index of usedRef in fallbackRefs (0 while undefined)
  timeout,                 \* the setTimeout handle: none, armed, fired, cleared
  aborted,                 \* controller.signal.aborted
  requests,                \* completeSimple calls issued by the invocation
  summary,                 \* summary (<<>> while unset)
  archivedTranscriptPath,  \* archivedTranscriptPath
  ops,                     \* file operations of the invocation, in order
  result,                  \* the HandoffResult returned (NoResult before)
  error,                   \* the error thrown (NoError before)
  dirExists,               \* the handoff directory exists
  summaryFiles,            \* <sessionId>.md files of the handoff directory
  archiveFiles,            \* <sessionId>.transcript.jsonl files
  transcripts,             \* the sessions' transcript files (sessions dir)
  listing,                 \* the last listHandoffSummaries call: what statSync
                           \* did and the entries returned
  latest,                  \* the last readLatestHandoffSummary call: what
                           \* statSync and readFileSync did, the value returned
  messages,                \* the entries given to extractTranscriptText
  extraction,              \* what extractTranscriptText did with them
  cmdPc,                   \* position of the TUI's /new or /reset handler
  cmd,                     \* the command being handled: its arguments,
                           \* handoffDone, the gateway calls it made
  commands,                \* number of /new and /reset commands so far
  chatLog,                 \* the system lines of the chat log
  pendingHandoffContext,   \* state.pendingHandoffContext (Null while null)
  currentSessionKey,       \* state.currentSessionKey
  activeChatRunId,         \* state.activeChatRunId (0 while null)
  localRunIds,             \* the run ids noted by noteLocalRunId
  sends,                   \* the sendMessage calls so far, by run id
  configFile,              \* the tui section of the config file
  saves,                   \* the saveTuiPrefs calls so far
  sessionInfo,             \* state.sessionInfo
  lastSessionDefaults,     \* lastSessionDefaults (not given while null)
  applied,                 \* the last applySessionInfo call: its parameters
  refreshes,               \* the refreshSessionInfo calls so far, in order
  currentAgentId,          \* state.currentAgentId
  firstHistoryLoad,        \* firstHistoryLoad
  cachedHistoryRecord,     \* cachedHistoryRecord (NoRecord while null)
  loads,                   \* the loadHistory calls so far
  expanded,                \* number of expandHistory calls so far
  agents,                  \* the ids of state.agents, in order
  initialSessionApplied,   \* state.initialSessionApplied
  initialSessionAgentId,   \* initialSessionAgentId ("null" while null)
  agentCalls,              \* number of applyAgentsResult calls so far
  resolutions,             \* times the initial session input was resolved
  presets,                 \* THEME_PRESETS: the palette registered under a
                           \* name ("none" for a name that is not a key)
  currentThemeName,        \* currentThemeName
  activePalette,           \* activePalette
  exported,                \* the palette each exported theme object was
                           \* built from
  lastSet                  \* the last setTheme call and what it did

vars == << setup, pc, running, clock, sessionId, messageCount, idx, probed, apiKey,
           usedRef, timeout, aborted, requests, summary,
           archivedTranscriptPath, ops, result, error, dirExists,
           summaryFiles, archiveFiles, transcripts, listing, latest,
           messages, extraction, cmdPc, cmd, commands, chatLog,
           pendingHandoffContext, currentSessionKey, activeChatRunId,
           localRunIds, sends, configFile, saves, sessionInfo,
           lastSessionDefaults, applied, refreshes, currentAgentId,
           firstHistoryLoad, cachedHistoryRecord, loads, expanded, agents,
           initialSessionApplied, initialSessionAgentId, agentCalls,
           resolutions, presets, currentThemeName, activePalette, exported,
           lastSet >>

\* the variables of the TUI
chat == << currentSessionKey, activeChatRunId, localRunIds, sends >>
tui == << cmdPc, cmd, commands, chatLog, pendingHandoffContext, chat >>

\* the variables of the callers of the handoff directory's lookups
lookups == << listing, latest >>

\* the variables of tui-config
prefs == << configFile, saves >>

\* the variables of theme.ts
themes == << presets, currentThemeName, activePalette, exported, lastSet >>

\* the variables of the session actions (createSessionActions)
info == << sessionInfo, lastSessionDefaults, applied >>
history == << firstHistoryLoad, cachedHistoryRecord, loads, expanded >>
roster == << agents, initialSessionApplied, initialSessionAgentId,
            agentCalls, resolutions >>
actions == << info, refreshes, currentAgentId, history, roster >>

\* the variables of the TUI's modules other than the session actions
apart == << prefs, themes >>

\* the variables of the TUI's other modules
session == << prefs, themes, actions >>

\* the variables outside performSessionHandoff
others == << lookups, messages, extraction, tui, session >>

locals == << sessionId, messageCount, idx, probed, apiKey, usedRef, timeout,
             aborted, requests, summary, archivedTranscriptPath, ops, result,
             error >>

files == << dirExists, summaryFiles, archiveFiles >>

\* the variables outside the TUI
core == << lookups, messages, extraction, setup, pc, running, clock, locals,
           files, transcripts >>

\* everything outside the TUI's other modules
base == << core, tui >>

NoFile == [exists |-> FALSE, content |-> <<>>, birthtime |-> 0]
NoResult ==
  [summary |-> <<>>, archivedTranscriptPath |-> Null, summaryPath |-> <<>>,
   messageCount |-> -1]
NoError == [kind |-> "none", tried |-> <<>>]

\* a transcript that was never written
NoTranscript == [exists |-> FALSE, content |-> <<>>]

\* no lookup was made
NoListing == [called |-> FALSE, unstatable |-> {}, entries |-> <<>>]
NoLatest ==
  [called |-> FALSE, unstatable |-> {}, unreadable |-> {},
   value |-> [null |-> TRUE, summary |-> <<>>, sessionId |-> None]]

\* extractTranscriptText was not called
NotExtracted == [called |-> FALSE, threw |-> FALSE, lines |-> <<>>, text |-> <<>>]

\* no command was handled
NoCommand ==
  [name |-> "none", args |-> "", key |-> "none", handoffDone |-> FALSE,
   calls |-> <<>>, failed |-> FALSE, logStart |-> 0]

InitTui ==
  /\ cmdPc = "idle"
  /\ cmd = NoCommand
  /\ commands = 0
  /\ chatLog = <<>>
  /\ pendingHandoffContext = Null
  /\ currentSessionKey = "k1"
  /\ activeChatRunId = 0
  /\ localRunIds = {}
  /\ sends = <<>>

InitPrefs ==
  /\ configFile = [k \in {"theme", "showTimestamps"} |-> "unset"]
  /\ saves = << >>

\* an entry of the sessions list; found is FALSE when no row matches, and
\* "undefined" and 0 stand for a field the entry does not have
NoEntry ==
  [found |-> FALSE, updatedAt |-> 0,
   model |-> "undefined", modelProvider |-> "undefined"]

\* the defaults of a sessions list; given is FALSE for null or undefined
NoDefaults ==
  [given |-> FALSE, model |-> "undefined", modelProvider |-> "undefined",
   contextTokens |-> "undefined"]

\* no history record; a record the gateway returns has loaded TRUE
NoRecord == [loaded |-> FALSE, messages |-> << >>]

NotApplied ==
  [entry |-> NoEntry, defaults |-> NoDefaults, force |-> FALSE,
   flip |-> FALSE]

InitActions ==
  /\ sessionInfo = [updatedAt |-> 0, model |-> "undefined",
                    modelProvider |-> "undefined",
                    contextTokens |-> "undefined"]
  /\ lastSessionDefaults = NoDefaults
  /\ applied = NotApplied
  /\ refreshes = << >>
  /\ currentAgentId = "main"
  /\ firstHistoryLoad = TRUE
  /\ cachedHistoryRecord = NoRecord
  /\ loads = << >>
  /\ expanded = 0

\* the agents state of a TUI started with one of the given initial agents
InitRoster(initialAgents) ==
  /\ agents = << >>
  /\ initialSessionApplied = FALSE
  /\ initialSessionAgentId \in initialAgents
  /\ agentCalls = 0
  /\ resolutions = 0

\* the exported theme objects, in the order setTheme rebuilds them
ThemeObjects ==
  << "theme", "markdownTheme", "selectListTheme",
     "filterableSelectListTheme", "settingsListTheme", "editorTheme",
     "searchableSelectListTheme" >>

\* theme.ts as loaded: the built-in presets, the default one active
InitThemes ==
  /\ presets = [name \in {"default", "dark", "custom", "constructor"} |->
                 CASE name = "default" -> "p1"
                   [] name = "dark" -> "p2"
                   [] OTHER -> "none"]
  /\ currentThemeName = "default"
  /\ activePalette = "p1"
  /\ exported = [i \in DOMAIN ThemeObjects |-> "p1"]
  /\ lastSet = [name |-> "none", registered |-> TRUE, returned |-> "none",
                changed |-> FALSE]

InitSession ==
  /\ InitPrefs
  /\ InitThemes
  /\ InitActions
  /\ InitRoster({"null"})

InitOthers ==
  /\ InitSession
  /\ listing = NoListing
  /\ latest = NoLatest
  /\ messages = <<>>
  /\ extraction = NotExtracted
  /\ InitTui

InitProcs ==
  /\ pc = [p \in Procs |-> "idle"]
  /\ running = None
  /\ clock = 0
  /\ sessionId = [p \in Procs |-> "s1"]
  /\ messageCount = [p \in Procs |-> 0]
  /\ idx = [p \in Procs |-> 1]
  /\ probed = [p \in Procs |-> <<>>]
  /\ apiKey = [p \in Procs |-> <<>>]
  /\ usedRef = [p \in Procs |-> 0]
  /\ timeout = [p \in Procs |-> "none"]
  /\ aborted = [p \in Procs |-> FALSE]
  /\ requests = [p \in Procs |-> <<>>]
  /\ summary = [p \in Procs |-> <<>>]
  /\ archivedTranscriptPath = [p \in Procs |-> Null]
  /\ ops = [p \in Procs |-> <<>>]
  /\ result = [p \in Procs |-> NoResult]
  /\ error = [p \in Procs |-> NoError]
  /\ transcripts = [s \in Sessions |-> NoTranscript]

InitRest ==
  /\ InitProcs
  /\ InitOthers
  /\ dirExists = FALSE
  /\ summaryFiles = [s \in Sessions |-> NoFile]
  /\ archiveFiles = [s \in Sessions |-> NoFile]

\* one caller, one session, credentials for the default model and the first
\* two fallbacks
Init ==
  /\ setup = [invocations |-> {"h1"}, sessions |-> {"s1"},
              credentialed |-> 1..3, again |-> TRUE]
  /\ InitRest

\* one caller handing off two sessions, credentials for the second candidate
InitDir ==
  /\ setup = [invocations |-> {"h1"}, sessions |-> Sessions,
              credentialed |-> {2}, again |-> TRUE]
  /\ InitRest

\* one caller, one session, credentials for the default model and the first
\* fallback
InitLive ==
  /\ setup = [invocations |-> {"h1"}, sessions |-> {"s1"},
              credentialed |-> {1, 2}, again |-> TRUE]
  /\ InitRest

\* two concurrent callers with one invocation each, two sessions, credentials
\* for the default model
InitConc ==
  /\ setup = [invocations |-> Procs, sessions |-> Sessions,
              credentialed |-> {1}, again |-> FALSE]
  /\ InitRest

\* ---------------------------------------------------------------- the clock
\* time passes (only between synchronous stretches)
Tick ==
  /\ running = None
  /\ clock < MaxClock
  /\ clock' = clock + 1
  /\ UNCHANGED << others, transcripts, setup, pc, running, locals, files >>

\* -------------------------------------------------------- the session store
\* message i of a session's transcript file, one JSON line
TranscriptLine(sid, i) == << sid, ":", ToString(i) >>

\* a file written at time t: a new file is born at t, an overwritten one
\* keeps its birthtime
WriteFile(old, bytes, t) ==
  [exists |-> TRUE, content |-> bytes,
   birthtime |-> IF old.exists THEN old.birthtime ELSE t]

\* the session goes on: the store appends a message to the transcript that
\* readSessionMessages (line 219) reads; a session gets its messages while
\* no handoff of it is under way
SessionAppends(sid) ==
  /\ running = None
  /\ sid \in setup.sessions
  /\ \A p \in Procs :
       sessionId[p] = sid => pc[p] \in {"idle", "returned", "thrown"}
  /\ Len(transcripts[sid].content) < MaxMessages
  /\ transcripts' =
       [transcripts EXCEPT ![sid] =
          [exists |-> TRUE,
           content |-> Append(@.content,
                              TranscriptLine(sid, Len(@.content) + 1))]]
  /\ UNCHANGED << others, setup, pc, running, clock, locals, files >>

\* ------------------------------------------------- performSessionHandoff
EmptySessionSummary == <<"Empty session - no messages to summarize.">>

\* the early return of lines 220-228 left out
NeverEmptySession(n) == FALSE

\* messages.length === 0
IsEmptySession(n) == n = 0

\* lines 207-231: a call with params.sessionId = sid whose transcript read
\* returns n messages
Start(p, sid, n) ==
  /\ running = None
  /\ p \in setup.invocations
  /\ sid \in setup.sessions
  /\ pc[p] \in {"idle"} \cup (IF setup.again THEN {"returned", "thrown"} ELSE {})
  /\ n = Len(transcripts[sid].content)
  /\ sessionId' = [sessionId EXCEPT ![p] = sid]
  /\ messageCount' = [messageCount EXCEPT ![p] = n]
  /\ idx' = [idx EXCEPT ![p] = 1]
  /\ probed' = [probed EXCEPT ![p] = <<>>]
  /\ apiKey' = [apiKey EXCEPT ![p] = <<>>]
  /\ usedRef' = [usedRef EXCEPT ![p] = 0]
  /\ timeout' = [timeout EXCEPT ![p] = "none"]
  /\ aborted' = [aborted EXCEPT ![p] = FALSE]
  /\ requests' = [requests EXCEPT ![p] = <<>>]
  /\ summary' = [summary EXCEPT ![p] = <<>>]
  /\ archivedTranscriptPath' = [archivedTranscriptPath EXCEPT ![p] = Null]
  /\ ops' = [ops EXCEPT ![p] = <<>>]
  /\ error' = [error EXCEPT ![p] = NoError]
  /\ IF IsEmptySession(n)
       THEN /\ result' = [result EXCEPT ![p] =
                            [summary |-> EmptySessionSummary,
                             archivedTranscriptPath |-> Null,
                             summaryPath |-> <<>>,
                             messageCount |-> 0]]
            /\ pc' = [pc EXCEPT ![p] = "returned"]
            /\ UNCHANGED running
       ELSE /\ result' = [result EXCEPT ![p] = NoResult]
            /\ pc' = [pc EXCEPT ![p] = "loop"]
            /\ running' = p
  /\ UNCHANGED << others, transcripts, setup, clock, files >>

\* what a probe of one candidate found: whether the candidate has both a
\* model and a key that is not blank
Usable(r, auth) ==
  /\ r = "model"
  /\ auth.kind = "key"
  /\ \E i \in 1..Len(auth.apiKey) : auth.apiKey[i] \notin Whitespace

NoAuth == [kind |-> "undefined", apiKey |-> <<>>]

\* lines 249-252 and the catch of 262: resolveModel answers r for the
\* candidate at idx; without a model the loop goes on to the next candidate,
\* with one the invocation awaits getApiKeyForModel
ResolveModel(p, r) ==
  /\ running = p
  /\ pc[p] = "loop"
  /\ idx[p] <= NumRefs
  /\ IF r = "model"
       THEN /\ pc' = [pc EXCEPT ![p] = "awaitAuth"]
            /\ running' = None
            /\ UNCHANGED << idx, probed >>
       ELSE /\ probed' = [probed EXCEPT ![p] =
                            Append(@, [ref |-> idx[p], usable |-> Usable(r, NoAuth)])]
            /\ idx' = [idx EXCEPT ![p] = @ + 1]
            /\ UNCHANGED << pc, running >>
  /\ UNCHANGED << others, transcripts, setup, clock, sessionId, messageCount, apiKey, usedRef, timeout,
                  aborted, requests, summary, archivedTranscriptPath, ops,
                  result, error, files >>

\* the key taken without trimming it
KeyOfUntrimmed(auth) == IF auth.kind = "key" THEN auth.apiKey ELSE <<>>

\* line 254: auth.apiKey?.trim()
KeyOf(auth) == IF auth.kind = "key" THEN Trim(auth.apiKey) ELSE <<>>

\* lines 253-264: getApiKeyForModel settles with auth; a usable key selects
\* the candidate and leaves the loop, anything else moves to the next one
GetApiKeyForModel(p, auth) ==
  /\ running = None
  /\ pc[p] = "awaitAuth"
  /\ Usable("model", auth) => idx[p] \in setup.credentialed
  /\ running' = p
  /\ probed' = [probed EXCEPT ![p] =
                  Append(@, [ref |-> idx[p], usable |-> Usable("model", auth)])]
  /\ IF auth.kind # "throw" /\ KeyOf(auth) # <<>>
       THEN /\ apiKey' = [apiKey EXCEPT ![p] = KeyOf(auth)]
            /\ usedRef' = [usedRef EXCEPT ![p] = idx[p]]
            /\ pc' = [pc EXCEPT ![p] = "selected"]
            /\ UNCHANGED idx
       ELSE /\ idx' = [idx EXCEPT ![p] = @ + 1]
            /\ pc' = [pc EXCEPT ![p] = "loop"]
            /\ UNCHANGED << apiKey, usedRef >>
  /\ UNCHANGED << others, transcripts, setup, clock, sessionId, messageCount, timeout, aborted, requests,
                  summary, archivedTranscriptPath, ops, result, error, files >>

\* `${r.provider}/${r.model}`
RefName(r) == << r.provider, "/", r.model >>

\* the message listing only the fixed fallbacks
TriedListWithoutDefault(refs) ==
  [i \in 1..(Len(refs) - 1) |-> RefName(refs[i + 1])]

\* line 269: fallbackRefs.map(...) of the error message
TriedList(refs) == [i \in 1..Len(refs) |-> RefName(refs[i])]

\* lines 267-271: the loop ran out of candidates
NoWorkingModel(p) ==
  /\ running = p
  /\ pc[p] = "loop"
  /\ idx[p] > NumRefs
  /\ usedRef[p] = 0
  /\ error' = [error EXCEPT ![p] =
                 [kind |-> "NoWorkingModel", tried |-> TriedList(fallbackRefs)]]
  /\ pc' = [pc EXCEPT ![p] = "thrown"]
  /\ running' = None
  /\ UNCHANGED << others, transcripts, setup, clock, sessionId, messageCount, idx, probed, apiKey, usedRef,
                  timeout, aborted, requests, summary, archivedTranscriptPath,
                  ops, result, files >>

\* lines 274-300: arm the timer, call completeSimple and await it
CallModel(p) ==
  /\ running = p
  /\ pc[p] = "selected"
  /\ timeout' = [timeout EXCEPT ![p] = "armed"]
  /\ requests' = [requests EXCEPT ![p] =
                    Append(@, [model |-> fallbackRefs[usedRef[p]],
                               apiKey |-> apiKey[p]])]
  /\ pc' = [pc EXCEPT ![p] = "awaitComplete"]
  /\ running' = None
  /\ UNCHANGED << others, transcripts, setup, clock, sessionId, messageCount, idx, probed, apiKey, usedRef,
                  aborted, summary, archivedTranscriptPath, ops, result, error,
                  files >>

\* a timer callback that leaves the signal alone
AbortIgnored(signalAborted) == signalAborted

\* line 275: the timer's callback, () => controller.abort()
Abort(signalAborted) == TRUE

\* the 120-second timer fires while it is armed
TimeoutFires(p) ==
  /\ running = None
  /\ timeout[p] = "armed"
  /\ timeout' = [timeout EXCEPT ![p] = "fired"]
  /\ aborted' = [aborted EXCEPT ![p] = Abort(@)]
  /\ UNCHANGED << others, transcripts, setup, pc, running, clock, sessionId, messageCount, idx, probed,
                  apiKey, usedRef, requests, summary, archivedTranscriptPath,
                  ops, result, error, files >>

\* the finally block left out
ClearTimeoutSkipped(t) == t

\* lines 318-320: clearTimeout(timeout) of the finally block
ClearTimeout(t) == IF t = "armed" THEN "cleared" ELSE t

\* lines 302-313: the trimmed, non-empty texts of the text blocks
RECURSIVE TextParts(_)
TextParts(content) ==
  IF content = <<>> THEN <<>>
  ELSE LET block == Head(content)
           text == Trim(block.text)
       IN  IF block.type = "text" /\ text # <<>>
             THEN <<text>> \o TextParts(Tail(content))
             ELSE TextParts(Tail(content))

\* lines 308-313: the summary of a response
SummaryOf(content) == Trim(Join(TextParts(content), <<"\n", "\n">>))

\* the empty-summary check left out
EmptySummaryAccepted(s) == FALSE

\* line 315: !summary
IsEmptySummary(s) == s = <<>>

\* a failed call caught inside the candidate loop, which then goes on
RetryNextCandidate == "loop"

\* where an invocation goes when its completion call failed: the error
\* leaves performSessionHandoff (no catch around lines 278-320)
OnCallFailure == "thrown"

\* lines 279-320: completeSimple resolves with a response before any abort
CompletionResolves(p, content) ==
  /\ running = None
  /\ pc[p] = "awaitComplete"
  /\ ~aborted[p]
  /\ summary' = [summary EXCEPT ![p] = SummaryOf(content)]
  /\ timeout' = [timeout EXCEPT ![p] = ClearTimeout(@)]
  /\ IF IsEmptySummary(SummaryOf(content))
       THEN /\ error' = [error EXCEPT ![p] =
                           [kind |-> "EmptySummary", tried |-> <<>>]]
            /\ pc' = [pc EXCEPT ![p] = OnCallFailure]
            /\ running' = IF OnCallFailure = "thrown" THEN None ELSE p
       ELSE /\ pc' = [pc EXCEPT ![p] = "archive"]
            /\ running' = p
            /\ UNCHANGED error
  /\ UNCHANGED << others, transcripts, setup, clock, sessionId, messageCount, idx, probed, apiKey, usedRef,
                  aborted, requests, archivedTranscriptPath, ops, result, files >>

\* lines 279-320: completeSimple rejects with a provider or network error
CompletionFails(p) ==
  /\ running = None
  /\ pc[p] = "awaitComplete"
  /\ ~aborted[p]
  /\ timeout' = [timeout EXCEPT ![p] = ClearTimeout(@)]
  /\ error' = [error EXCEPT ![p] = [kind |-> "ProviderError", tried |-> <<>>]]
  /\ pc' = [pc EXCEPT ![p] = OnCallFailure]
  /\ running' = IF OnCallFailure = "thrown" THEN None ELSE p
  /\ UNCHANGED << others, transcripts, setup, clock, sessionId, messageCount, idx, probed, apiKey, usedRef,
                  aborted, requests, summary, archivedTranscriptPath, ops,
                  result, files >>

\* lines 298 and 318-320: the request, handed controller.signal, is cancelled
\* once the signal has aborted, and the call rejects
CompletionAborted(p) ==
  /\ running = None
  /\ pc[p] = "awaitComplete"
  /\ aborted[p]
  /\ timeout' = [timeout EXCEPT ![p] = ClearTimeout(@)]
  /\ error' = [error EXCEPT ![p] = [kind |-> "Aborted", tried |-> <<>>]]
  /\ pc' = [pc EXCEPT ![p] = OnCallFailure]
  /\ running' = IF OnCallFailure = "thrown" THEN None ELSE p
  /\ UNCHANGED << others, transcripts, setup, clock, sessionId, messageCount, idx, probed, apiKey, usedRef,
                  aborted, requests, summary, archivedTranscriptPath, ops,
                  result, files >>

\* ------------------------------------------------------- the handoff directory
\* resolveHandoffDir(agentId) joined with a file name
HandoffPath(sid, ext) == << "session-handoffs/", sid, ext >>

\* the bytes of the session's transcript file
TranscriptBytes(sid) == transcripts[sid].content

\* the session key the session id belongs to
SessionKey(sid) == << "agent:main:", sid >>

\* lines 352-359
summaryHeader(sid, key, now, count, ref) ==
  << "# Session Handoff Summary\n\n",
     "- **Session ID**: " >> \o <<sid>> \o << "\n",
     "- **Session Key**: " >> \o key \o << "\n",
     "- **Created**: ", ToString(now), "\n",
     "- **Messages**: ", ToString(count), "\n",
     "- **Model**: " >> \o RefName(ref) \o << "\n\n",
     "---\n\n" >>

\* a catch that does not reset the path
ArchiveCatchKeepsPath(path) == path

\* the value archivedTranscriptPath has after the catch of lines 340-343
ArchiveCatch(path) == Null

\* a copy that keeps a destination that is already there
CopyFileExclusive(old, bytes, t) ==
  IF old.exists THEN old ELSE WriteFile(old, bytes, t)

\* line 339: copyFileSync without flags replaces an existing destination
CopyFile(old, bytes, t) == WriteFile(old, bytes, t)

\* a transcript renamed into the handoff directory
SourceAfterMove(file) == NoTranscript

\* line 339: copyFileSync leaves its source as it is
SourceAfterCopy(file) == file

\* lines 324-331: look for the transcript file among the candidate paths
FindTranscript(p, found) ==
  /\ running = p
  /\ pc[p] = "archive"
  /\ found => transcripts[sessionId[p]].exists
  /\ ops' = [ops EXCEPT ![p] = Append(@, [op |-> "find", ok |-> found])]
  /\ pc' = [pc EXCEPT ![p] = IF found THEN "copy" ELSE "store"]
  /\ UNCHANGED << others, transcripts, setup, running, clock, sessionId, messageCount, idx, probed, apiKey,
                  usedRef, timeout, aborted, requests, summary,
                  archivedTranscriptPath, result, error, files >>

\* lines 332-343: mkdirSync then copyFileSync, either of which may throw
\* into the catch
ArchiveTranscript(p, mkdirOk, copyOk) ==
  LET sid == sessionId[p]
      path == HandoffPath(sid, ".transcript.jsonl")
  IN
  /\ running = p
  /\ pc[p] = "copy"
  /\ dirExists' = (dirExists \/ mkdirOk)
  /\ IF mkdirOk
       THEN /\ ops' = [ops EXCEPT ![p] =
                         @ \o << [op |-> "mkdirArchive", ok |-> TRUE],
                                 [op |-> "copy", ok |-> copyOk] >>]
            /\ IF copyOk
                 THEN /\ archiveFiles' =
                           [archiveFiles EXCEPT ![sid] =
                              CopyFile(@, TranscriptBytes(sid), clock)]
                      /\ archivedTranscriptPath' =
                           [archivedTranscriptPath EXCEPT ![p] = path]
                      /\ transcripts' =
                           [transcripts EXCEPT ![sid] = SourceAfterCopy(@)]
                 ELSE /\ archivedTranscriptPath' =
                           [archivedTranscriptPath EXCEPT ![p] = ArchiveCatch(path)]
                      /\ UNCHANGED << archiveFiles, transcripts >>
       ELSE /\ ops' = [ops EXCEPT ![p] =
                         Append(@, [op |-> "mkdirArchive", ok |-> FALSE])]
            /\ archivedTranscriptPath' =
                 [archivedTranscriptPath EXCEPT ![p] = ArchiveCatch(Null)]
            /\ UNCHANGED << archiveFiles, transcripts >>
  /\ pc' = [pc EXCEPT ![p] = "store"]
  /\ UNCHANGED << others, setup, running, clock, sessionId, messageCount, idx, probed, apiKey,
                  usedRef, timeout, aborted, requests, summary, result, error,
                  summaryFiles >>

\* one summary file name for every session
SharedSummaryFile(sid) == "s1"

\* line 350: the summary file is named after the sessionId
SummaryFileOf(sid) == sid

\* a store failure that is swallowed like an archive failure
IgnoreStoreFailure == "return"

\* where an invocation goes when mkdirSync or writeFileSync of lines 348 and
\* 361 throws: nothing catches it
OnStoreFailure == "thrown"

\* lines 346-361: mkdirSync then writeFileSync, either of which may throw
StoreSummary(p, mkdirOk, writeOk) ==
  LET sid == sessionId[p]
      bytes == summaryHeader(sid, SessionKey(sid), clock, messageCount[p],
                             fallbackRefs[usedRef[p]]) \o summary[p]
  IN
  /\ running = p
  /\ pc[p] = "store"
  /\ dirExists' = (dirExists \/ mkdirOk)
  /\ IF mkdirOk /\ writeOk
       THEN /\ summaryFiles' = [summaryFiles EXCEPT ![SummaryFileOf(sid)] = WriteFile(@, bytes, clock)]
            /\ ops' = [ops EXCEPT ![p] =
                         @ \o << [op |-> "mkdir", ok |-> TRUE],
                                 [op |-> "write", ok |-> TRUE] >>]
            /\ pc' = [pc EXCEPT ![p] = "return"]
            /\ UNCHANGED << running, error >>
       ELSE /\ ops' = [ops EXCEPT ![p] =
                         IF mkdirOk
                           THEN @ \o << [op |-> "mkdir", ok |-> TRUE],
                                        [op |-> "write", ok |-> FALSE] >>
                           ELSE Append(@, [op |-> "mkdir", ok |-> FALSE])]
            /\ error' = [error EXCEPT ![p] =
                           [kind |-> IF mkdirOk THEN "WriteError" ELSE "MkdirError",
                            tried |-> <<>>]]
            /\ pc' = [pc EXCEPT ![p] = OnStoreFailure]
            /\ running' = IF OnStoreFailure = "thrown" THEN None ELSE p
            /\ UNCHANGED summaryFiles
  /\ UNCHANGED << others, transcripts, setup, clock, sessionId, messageCount, idx, probed, apiKey, usedRef,
                  timeout, aborted, requests, summary, archivedTranscriptPath,
                  result, archiveFiles >>

\* lines 363-369
Return(p) ==
  /\ running = p
  /\ pc[p] = "return"
  /\ result' = [result EXCEPT ![p] =
                  [summary |-> summary[p],
                   archivedTranscriptPath |-> archivedTranscriptPath[p],
                   summaryPath |-> HandoffPath(sessionId[p], ".md"),
                   messageCount |-> messageCount[p]]]
  /\ pc' = [pc EXCEPT ![p] = "returned"]
  /\ running' = None
  /\ UNCHANGED << others, transcripts, setup, clock, sessionId, messageCount, idx, probed, apiKey, usedRef,
                  timeout, aborted, requests, summary, archivedTranscriptPath,
                  ops, error, files >>

\* ------------------------------------------------------------ summary lookup
\* the *.md files of the handoff directory that listHandoffSummaries stats
ListedSessions == IF dirExists THEN { sid \in Sessions : summaryFiles[sid].exists } ELSE {}

\* lines 130-167: the lists listHandoffSummaries may return, one entry per
\* *.md file, sorted by birthtime descending; files of equal birthtime come
\* in the order readdirSync lists them, which the code does not control
listHandoffSummaries ==
  { l \in [1..Cardinality(ListedSessions) ->
             { [sessionId |-> sid, path |-> HandoffPath(sid, ".md"),
                createdAt |-> summaryFiles[sid].birthtime] : sid \in ListedSessions }] :
      /\ \A i, j \in DOMAIN l : i # j => l[i].sessionId # l[j].sessionId
      /\ \A i, j \in DOMAIN l : i < j => l[i].createdAt >= l[j].createdAt }

\* lines 172-183
readHandoffSummary(sid) ==
  IF dirExists /\ summaryFiles[sid].exists THEN summaryFiles[sid].content ELSE Null

\* the part of a summary file after its metadata header, which ends with
\* the first "---" line
RECURSIVE StripHeader(_)
StripHeader(bytes) ==
  IF bytes = <<>> THEN <<>>
  ELSE IF Head(bytes) = "---\n\n" THEN Tail(bytes)
  ELSE StripHeader(Tail(bytes))

\* readdirSync of the handoff directory: the files of the sessions in the
\* order the file system lists them
RECURSIVE ReadDir(_)
ReadDir(order) ==
  IF order = <<>> THEN <<>>
  ELSE LET sid == Head(order)
       IN (IF archiveFiles[sid].exists
             THEN << [base |-> sid, ext |-> ".transcript.jsonl"] >> ELSE <<>>)
          \o (IF summaryFiles[sid].exists
                THEN << [base |-> sid, ext |-> ".md"] >> ELSE <<>>)
          \o ReadDir(Tail(order))

\* the orders readdirSync may list the sessions' files in
DirOrders ==
  { o \in [1..Cardinality(Sessions) -> Sessions] :
      \A i, j \in DOMAIN o : i # j => o[i] # o[j] }

\* line 147: file.endsWith(".md")
EndsWithMd(file) == file.ext = ".md"

\* lines 146-164: one entry per *.md file whose statSync does not throw
RECURSIVE StatEntries(_, _)
StatEntries(dirFiles, unstatable) ==
  IF dirFiles = <<>> THEN <<>>
  ELSE LET file == Head(dirFiles)
           rest == StatEntries(Tail(dirFiles), unstatable)
       IN IF ~EndsWithMd(file) THEN rest
          ELSE IF file.base \in unstatable THEN rest
          ELSE << [sessionId |-> file.base,
                   path |-> HandoffPath(file.base, ".md"),
                   createdAt |-> summaryFiles[file.base].birthtime] >> \o rest

\* a comparator that puts the oldest first
OldestFirst(a, b) == a.createdAt - b.createdAt

\* line 166: the comparator, b.createdAt.getTime() - a.createdAt.getTime()
NewestFirst(a, b) == b.createdAt - a.createdAt

\* Array.prototype.sort with that comparator: stable, an entry goes behind
\* every entry the comparator does not put after it
RECURSIVE SortEntries(_)
SortEntries(entries) ==
  IF entries = <<>> THEN <<>>
  ELSE LET sorted == SortEntries(SubSeq(entries, 1, Len(entries) - 1))
           e == entries[Len(entries)]
           k == Cardinality({ i \in DOMAIN sorted : NewestFirst(sorted[i], e) <= 0 })
       IN SubSeq(sorted, 1, k) \o << e >> \o SubSeq(sorted, k + 1, Len(sorted))

\* lines 130-167 for one answer of the file system
listHandoffSummariesOf(order, unstatable) ==
  IF ~dirExists THEN <<>>
  ELSE SortEntries(StatEntries(ReadDir(order), unstatable))

\* a call of listHandoffSummaries
ListHandoffSummaries(order, unstatable) ==
  /\ running = None
  /\ listing' = [called |-> TRUE, unstatable |-> unstatable,
                  entries |-> listHandoffSummariesOf(order, unstatable)]
  /\ UNCHANGED << session, latest, messages, extraction, tui, setup, pc, running, clock,
                  locals, files, transcripts >>

\* a read that takes an empty summary for a summary
EmptyIsSummary(bytes) == FALSE

\* line 198: !summary, for null and for the empty string
Missing(bytes) == bytes = Null \/ bytes = <<>>

\* lines 172-183 when readFileSync throws for the files in unreadable
readHandoffSummaryOf(sid, unreadable) ==
  IF sid \in unreadable THEN Null ELSE readHandoffSummary(sid)

\* lines 188-202
readLatestHandoffSummaryOf(order, unstatable, unreadable) ==
  LET summaries == listHandoffSummariesOf(order, unstatable)
      none == [null |-> TRUE, summary |-> <<>>, sessionId |-> None]
  IN IF Len(summaries) = 0 THEN none
     ELSE LET bytes == readHandoffSummaryOf(summaries[1].sessionId, unreadable)
          IN IF Missing(bytes) THEN none
             ELSE [null |-> FALSE, summary |-> bytes,
                   sessionId |-> summaries[1].sessionId]

\* a call of readLatestHandoffSummary
ReadLatestHandoffSummary(order, unstatable, unreadable) ==
  /\ running = None
  /\ latest' = [called |-> TRUE, unstatable |-> unstatable,
                 unreadable |-> unreadable,
                 value |-> readLatestHandoffSummaryOf(order, unstatable, unreadable)]
  /\ UNCHANGED << session, listing, messages, extraction, tui, setup, pc, running, clock,
                  locals, files, transcripts >>

\* the files a handoff directory may hold: summaries that handoffs wrote,
\* empty *.md files of other origin, archived transcripts
DirSummaries ==
  { NoFile } \cup
  [exists : {TRUE},
   content : { <<>>, << "# Session Handoff Summary\n\n", "---\n\n", "a" >> },
   birthtime : 0..MaxClock]
DirArchives == { NoFile, [exists |-> TRUE, content |-> <<>>, birthtime |-> 0] }

\* no invocation under way, any handoff directory
InitLookup ==
  /\ setup = [invocations |-> {}, sessions |-> {}, credentialed |-> {},
              again |-> FALSE]
  /\ InitProcs
  /\ InitOthers
  /\ dirExists \in BOOLEAN
  /\ summaryFiles \in [Sessions -> DirSummaries]
  /\ archiveFiles \in [Sessions -> DirArchives]
  /\ ~dirExists =>
       \A sid \in Sessions : ~summaryFiles[sid].exists /\ ~archiveFiles[sid].exists

NextLookup ==
  \/ \E order \in DirOrders, unstatable \in SUBSET Sessions :
        ListHandoffSummaries(order, unstatable)
  \/ \E order \in DirOrders, unstatable \in SUBSET Sessions,
        unreadable \in SUBSET Sessions :
        ReadLatestHandoffSummary(order, unstatable, unreadable)

LookupSpec == InitLookup /\ [][NextLookup]_vars

\* ----------------------------------------------------- extractTranscriptText
\* line 27
MAX_TRANSCRIPT_CHARS == 150000

\* line 100: the cap of one message's text
MAX_MESSAGE_CHARS == 5000

\* line 100: the suffix of a capped message
TruncatedSuffix == << ".", ".", ".", " ", "[", "t", "r", "u", "n", "c", "a", "t", "e", "d", "]" >>

\* line 111: the marker of a capped transcript, and what goes between the
\* two halves, the marker with a blank line before and after it
MarkerText ==
  << ".", ".", ".", " ", "[", "m", "i", "d", "d", "l", "e", " ", "o", "f", " ", "c", "o", "n", "v", "e", "r", "s", "a", "t", "i", "o", "n", " ", "t", "r", "u", "n", "c", "a", "t", "e", "d", " ", "f", "o", "r", " ", "l", "e", "n", "g", "t", "h", "]", " ", ".", ".", "." >>
MiddleMarker == << "\n", "\n" >> \o MarkerText \o << "\n", "\n" >>

\* a text of n characters, the decimal digits in turn
Fill(n) == [i \in 1..n |-> ToString(i % 10)]

\* the value of a property of an entry or of a content part: absent, a
\* string, or a value of another type (null, a number, an object)
Absent == [is |-> "absent", str |-> <<>>]
Other == [is |-> "other", str |-> <<>>]
Str(chars) == [is |-> "string", str |-> chars]

\* a part of a content array: null, a primitive, or an object
Part(type, text, name, toolName) ==
  [is |-> "object", type |-> type, text |-> text, name |-> name,
   toolName |-> toolName]
NullPart == [is |-> "null", type |-> Absent, text |-> Absent, name |-> Absent,
             toolName |-> Absent]
PrimitivePart == [is |-> "primitive", type |-> Absent, text |-> Absent,
                  name |-> Absent, toolName |-> Absent]

\* the content of an entry: absent, a string, an array of parts, or a value
\* of another type
NoContent == [is |-> "absent", str |-> <<>>, parts |-> <<>>]
OtherContent == [is |-> "other", str |-> <<>>, parts |-> <<>>]
StrContent(chars) == [is |-> "string", str |-> chars, parts |-> <<>>]
ArrContent(parts) == [is |-> "array", str |-> <<>>, parts |-> parts]

\* an entry of the messages array: null or undefined, a primitive, or an
\* object with a role and a content
Entry(role, content) == [is |-> "object", role |-> role, content |-> content]
NullEntry == [is |-> "null", role |-> Absent, content |-> NoContent]
PrimitiveEntry == [is |-> "primitive", role |-> Absent, content |-> NoContent]

\* line 61: String(m.role ?? "unknown"); a role of another type is taken to
\* be a number, whose string is its digits
RoleOf(m) ==
  CASE m.role.is = "absent" -> << "u", "n", "k", "n", "o", "w", "n" >>
    [] m.role.is = "string" -> m.role.str
    [] OTHER -> << "7" >>

\* lines 73-91: what one part of a content array pushes to parts
PartTexts(part) ==
  IF part.is # "object" THEN <<>>
  ELSE (IF /\ part.text.is = "string"
           /\ part.type \in { Str(<< "t", "e", "x", "t" >>),
                               Str(<< "o", "u", "t", "p", "u", "t", "_", "t", "e", "x", "t" >>),
                               Str(<< "i", "n", "p", "u", "t", "_", "t", "e", "x", "t" >>) }
          THEN << part.text.str >> ELSE <<>>)
       \o
       (IF part.type \in { Str(<< "t", "o", "o", "l", "_", "c", "a", "l", "l" >>), Str(<< "t", "o", "o", "l", "C", "a", "l", "l" >>) }
          THEN << << "[", "t", "o", "o", "l", " ", "c", "a", "l", "l", ":", " " >> \o
                  (IF part.name.is = "string" THEN part.name.str
                   ELSE IF part.toolName.is = "string" THEN part.toolName.str
                   ELSE << "u", "n", "k", "n", "o", "w", "n", "-", "t", "o", "o", "l" >>) \o << "]" >> >>
          ELSE <<>>)

RECURSIVE PartsOf(_)
PartsOf(content) ==
  IF content = <<>> THEN <<>>
  ELSE PartTexts(Head(content)) \o PartsOf(Tail(content))

\* lines 68-93: the text of an entry
TextOf(m) ==
  CASE m.content.is = "string" -> m.content.str
    [] m.content.is = "array" -> Join(PartsOf(m.content.parts), << "\n" >>)
    [] OTHER -> <<>>

\* a loop that lets system messages through
SystemKept(role) == FALSE

\* lines 64-66: role === "system"
IsSystem(role) == role = << "s", "y", "s", "t", "e", "m" >>

\* a cap that cuts without a suffix
CutOnly(text) ==
  IF Len(text) > MAX_MESSAGE_CHARS THEN SubSeq(text, 1, MAX_MESSAGE_CHARS) ELSE text

\* line 100: text.length > 5000 ? text.slice(0, 5000) + "... [truncated]" : text
Truncated(text) ==
  IF Len(text) > MAX_MESSAGE_CHARS
    THEN SubSeq(text, 1, MAX_MESSAGE_CHARS) \o TruncatedSuffix
    ELSE text

\* line 101: `[${role}]: ${trimmed}`
LineOf(role, trimmed) == << "[" >> \o role \o << "]", ":", " " >> \o trimmed

\* lines 59-102: the lines pushed for the entries, none for a system
\* message or for a text that trims to nothing
RECURSIVE LinesOf(_)
LinesOf(entries) ==
  IF entries = <<>> THEN <<>>
  ELSE LET m == Head(entries)
           rest == LinesOf(Tail(entries))
       IN IF IsSystem(RoleOf(m)) THEN rest
          ELSE IF Trim(TextOf(m)) = <<>> THEN rest
          ELSE << LineOf(RoleOf(m), Truncated(TextOf(m))) >> \o rest

\* a cap that keeps the two halves and nothing between them
NoMarker == <<>>

\* line 111
Marker == MiddleMarker

\* lines 104-114
CapTranscript(joined) ==
  IF Len(joined) > MAX_TRANSCRIPT_CHARS
    THEN LET half == MAX_TRANSCRIPT_CHARS \div 2
         IN SubSeq(joined, 1, half) \o Marker
            \o SubSeq(joined, Len(joined) - half + 1, Len(joined))
    ELSE joined

\* line 61: m.role of null or undefined is a TypeError
ThrowsOn(m) == m.is = "null"

\* lines 56-115: the call throws at the first null or undefined entry,
\* else returns the capped join of the lines
ExtractTranscriptText ==
  /\ running = None
  /\ ~extraction.called
  /\ extraction' =
       IF \E i \in DOMAIN messages : ThrowsOn(messages[i])
         THEN [called |-> TRUE, threw |-> TRUE, lines |-> <<>>, text |-> <<>>]
         ELSE [called |-> TRUE, threw |-> FALSE, lines |-> LinesOf(messages),
               text |-> CapTranscript(Join(LinesOf(messages), << "\n", "\n" >>))]
  /\ UNCHANGED << session, lookups, messages, tui, setup, pc, running, clock, locals,
                  files, transcripts >>

\* the number of messages of a long transcript and the length of their texts
LongMessages == 30
LongText == 4990

\* roles of the entries: absent, of another type, or a string
SampleRoles ==
  { Absent, Other, Str(<< "u", "s", "e", "r" >>), Str(<< "s", "y", "s", "t", "e", "m" >>) }

\* parts of content arrays, well formed and not
SampleParts ==
  { NullPart, PrimitivePart,
    Part(Str(<< "t", "e", "x", "t" >>), Str(<< "h", "i" >>), Absent, Absent),
    Part(Str(<< "t", "e", "x", "t" >>), Str(<< " " >>), Absent, Absent),
    Part(Str(<< "t", "e", "x", "t" >>), Other, Absent, Absent),
    Part(Str(<< "o", "u", "t", "p", "u", "t", "_", "t", "e", "x", "t" >>), Str(<< "o" >>), Absent, Absent),
    Part(Str(<< "i", "m", "a", "g", "e" >>), Str(<< "x" >>), Absent, Absent),
    Part(Absent, Str(<< "x" >>), Absent, Absent),
    Part(Str(<< "t", "o", "o", "l", "_", "c", "a", "l", "l" >>), Str(<< "t" >>), Str(<< "l", "s" >>), Absent),
    Part(Str(<< "t", "o", "o", "l", "C", "a", "l", "l" >>), Absent, Other, Str(<< "r", "m" >>)),
    Part(Str(<< "t", "o", "o", "l", "C", "a", "l", "l" >>), Absent, Absent, Absent) }

\* contents of the entries, well formed and not
SampleContents ==
  { NoContent, OtherContent, StrContent(<<>>), StrContent(<< " ", "\n" >>),
    StrContent(<< "h", "i" >>), StrContent(<< " ", "h", "i", " " >>),
    StrContent(Fill(MAX_MESSAGE_CHARS)), StrContent(Fill(MAX_MESSAGE_CHARS + 1)),
    StrContent(Fill(MAX_MESSAGE_CHARS) \o TruncatedSuffix) }
  \cup { ArrContent(parts) : parts \in SeqsUpTo(SampleParts, MaxBlocks) }

\* entries of the messages array, well formed and not
SampleEntries ==
  { NullEntry, PrimitiveEntry }
  \cup { Entry(role, content) : role \in SampleRoles, content \in SampleContents }

\* the entries that transcripts of several messages are made of
CoreEntries ==
  { NullEntry,
    Entry(Str(<< "u", "s", "e", "r" >>), StrContent(<< "h", "i" >>)),
    Entry(Str(<< "s", "y", "s", "t", "e", "m" >>), StrContent(<< "h", "i" >>)),
    Entry(Str(<< "u", "s", "e", "r" >>), StrContent(<< " " >>)),
    Entry(Absent, StrContent(Fill(MAX_MESSAGE_CHARS + 1))),
    Entry(Other, ArrContent(<< Part(Str(<< "t", "e", "x", "t" >>), Str(<< "h", "i" >>), Absent, Absent),
                               Part(Str(<< "t", "o", "o", "l", "C", "a", "l", "l" >>), Absent, Absent, Absent) >>)) }

\* a long transcript: LongMessages user messages of LongText characters, the
\* first with a text that begins with first and the last d characters longer
LongTranscript(first, d) ==
  [i \in 1..LongMessages |->
     Entry(Str(<< "u", "s", "e", "r" >>),
           StrContent(IF i = 1 THEN first \o Fill(LongText - Len(first))
                      ELSE IF i = LongMessages THEN Fill(LongText + d)
                      ELSE Fill(LongText)))]

\* the transcripts extractTranscriptText is given
ExtractInputs ==
  { << m >> : m \in SampleEntries }
  \cup SeqsUpTo(CoreEntries, MaxMessages)
  \cup { LongTranscript(first, d) : first \in { <<>>, MiddleMarker }, d \in 0..4 }

\* no invocation under way, no handoff directory, any transcript
InitExtract ==
  /\ setup = [invocations |-> {}, sessions |-> {}, credentialed |-> {},
              again |-> FALSE]
  /\ InitProcs
  /\ listing = NoListing
  /\ latest = NoLatest
  /\ messages \in ExtractInputs
  /\ extraction = NotExtracted
  /\ InitTui
  /\ InitSession
  /\ dirExists = FALSE
  /\ summaryFiles = [s \in Sessions |-> NoFile]
  /\ archiveFiles = [s \in Sessions |-> NoFile]

NextExtract == ExtractTranscriptText

ExtractSpec == InitExtract /\ [][NextExtract]_vars

\* ------------------------------------------------ the TUI's /new and /reset
\* the number of commands of a run
MaxCommands == 2

\* the arguments a /new or /reset command comes with
CommandArgs == { "", "quick", "QUICK", "Quick", "now" }

\* String.prototype.toLowerCase on those arguments
ToLowerCase(a) == IF a \in { "QUICK", "Quick" } THEN "quick" ELSE a

\* the session keys of the TUI
SessionKeys == { "k1", "k2" }

\* the summary the gateway makes of the session that key names when the
\* n-th command hands it off
SummaryOfSession(key, n) == << key, ToString(n) >>

\* what client.handoffSession settles with: a rejection, no result, a result
\* that is not ok, an ok result without a handoff, or an ok result with one
HandoffOutcomes ==
  { [kind |-> k, summary |-> <<>>, archivedTranscriptPath |-> Null] :
      k \in { "throw", "undefined", "notOk", "okNoHandoff" } }
  \cup { [kind |-> "handoff", summary |-> SummaryOfSession(key, n),
           archivedTranscriptPath |-> a] :
           key \in SessionKeys, n \in 1..MaxCommands,
           a \in { Null, HandoffPath("s1", ".transcript.jsonl") } }

\* the handler after the gateway calls in calls
Called(c, call) == [c EXCEPT !.calls = Append(@, call)]

\* a handler that resets whatever the handoff did
AlwaysReset(handoffDone) == TRUE

\* line 500: if (!handoffDone)
FallBackToReset(handoffDone) == ~handoffDone

\* lines 460-478: a /new or /reset command arrives; with "quick" the handoff
\* is skipped and resetSession is called, else handoffSession is called
NewOrReset(name, args) ==
  /\ cmdPc \in {"idle", "done"}
  /\ commands < MaxCommands
  /\ commands' = commands + 1
  /\ LET skipHandoff == ToLowerCase(args) = "quick"
         started == [name |-> name, args |-> args, key |-> currentSessionKey,
                     handoffDone |-> FALSE, calls |-> <<>>, failed |-> FALSE,
                     logStart |-> Len(chatLog)]
     IN IF skipHandoff
          THEN /\ cmd' = started
               /\ cmdPc' = "awaitReset"
               /\ UNCHANGED chatLog
          ELSE /\ cmd' = started
               /\ cmdPc' = "awaitHandoff"
               /\ chatLog' = Append(chatLog, "summarizing session for handoff...")
  /\ UNCHANGED << session, pendingHandoffContext, chat, lookups, messages, extraction,
                  setup, pc, running, clock, locals, files, transcripts >>

\* lines 477-504: client.handoffSession settles
HandoffSettles(outcome) ==
  /\ cmdPc = "awaitHandoff"
  /\ outcome.kind = "handoff" =>
       outcome.summary = SummaryOfSession(cmd.key, commands)
  /\ LET call == [call |-> "handoffSession", outcome |-> outcome.kind]
         done == outcome.kind = "handoff"
     IN
     /\ cmd' = [Called(cmd, call) EXCEPT !.handoffDone = done]
     /\ chatLog' =
          chatLog \o
          (CASE outcome.kind = "throw" ->
                  << "handoff summary skipped (model unavailable), resetting..." >>
             [] outcome.kind = "handoff" ->
                  << "session handed off", "summary saved to" >>
                  \o (IF outcome.archivedTranscriptPath # Null
                        THEN << "transcript archived to" >> ELSE <<>>)
                  \o << "previous session context will be automatically injected with your next message" >>
             [] OTHER -> <<>>)
     /\ pendingHandoffContext' =
          IF done THEN outcome.summary ELSE pendingHandoffContext
     /\ cmdPc' = IF FallBackToReset(done) THEN "awaitReset" ELSE "awaitLoad"
  /\ UNCHANGED << session, commands, chat, lookups, messages, extraction, setup, pc,
                  running, clock, locals, files, transcripts >>

\* lines 501-502 and the catch of 506: client.resetSession settles
ResetSettles(ok) ==
  /\ cmdPc = "awaitReset"
  /\ cmd' = [Called(cmd, [call |-> "resetSession",
                           outcome |-> IF ok THEN "ok" ELSE "throw"])
               EXCEPT !.failed = ~ok]
  /\ chatLog' = Append(chatLog, IF ok THEN "session reset" ELSE "reset failed")
  /\ cmdPc' = IF ok THEN "awaitLoad" ELSE "done"
  /\ UNCHANGED << session, commands, pendingHandoffContext, chat, lookups, messages,
                  extraction, setup, pc, running, clock, locals, files,
                  transcripts >>

\* line 505 and the catch of 506: loadHistory settles
LoadHistorySettles(ok) ==
  /\ cmdPc = "awaitLoad"
  /\ cmd' = [Called(cmd, [call |-> "loadHistory",
                           outcome |-> IF ok THEN "ok" ELSE "throw"])
               EXCEPT !.failed = ~ok]
  /\ chatLog' = IF ok THEN chatLog ELSE Append(chatLog, "reset failed")
  /\ cmdPc' = "done"
  /\ UNCHANGED << session, commands, pendingHandoffContext, chat, lookups, messages,
                  extraction, setup, pc, running, clock, locals, files,
                  transcripts >>

\* no invocation under way, no handoff directory, a TUI at rest
InitCommands ==
  /\ setup = [invocations |-> {}, sessions |-> {}, credentialed |-> {},
              again |-> FALSE]
  /\ InitRest

NextTui ==
  \/ \E name \in {"new", "reset"}, args \in CommandArgs : NewOrReset(name, args)
  \/ \E outcome \in HandoffOutcomes : HandoffSettles(outcome)
  \/ \E ok \in BOOLEAN : ResetSettles(ok)
  \/ \E ok \in BOOLEAN : LoadHistorySettles(ok)

TuiSpec == InitCommands /\ [][NextTui]_vars

\* ----------------------------------------------------------- sendMessage
\* the number of sendMessage calls of a run
MaxSends == 2

\* the texts the user sends
Texts == { "m1" }

\* line 661: a context is injected when it is neither null nor empty
Truthy(context) == context # Null /\ context # <<>>

\* lines 660-669: the message that is sent for text with that pending context
MessageToSend(context, text) ==
  IF Truthy(context)
    THEN << "[Previous Session Context]\n",
            "The following is a summary of our previous conversation session. Use it to understand what we were working on and seamlessly continue:\n\n" >>
         \o context
         \o << "\n\n", "---\n\n", "[Current Message]\n", text >>
    ELSE << text >>

\* a send that leaves the context where it is
ContextKept(context) == context

\* line 668: state.pendingHandoffContext = null, when a context was injected
ContextAfterSend(context) == IF Truthy(context) THEN Null ELSE context

\* the number of the last /new or /reset command that is past its handoff
HandoffsPast == IF cmdPc = "awaitHandoff" THEN commands - 1 ELSE commands

\* lines 654-675: sendMessage up to its await of client.sendChat; the run id
\* is a fresh one
SendMessage(text) ==
  /\ Len(sends) < MaxSends
  /\ LET runId == Len(sends) + 1
     IN /\ sends' = Append(sends,
                           [text |-> text,
                            context |-> IF Truthy(pendingHandoffContext)
                                          THEN pendingHandoffContext ELSE Null,
                            message |-> MessageToSend(pendingHandoffContext, text),
                            sessionKey |-> currentSessionKey,
                            pastCommands |-> HandoffsPast,
                            status |-> "sending", forgot |-> 0, cleared |-> 0])
        /\ localRunIds' = localRunIds \cup {runId}
        /\ activeChatRunId' = runId
  /\ chatLog' = Append(chatLog, text)
  /\ pendingHandoffContext' = ContextAfterSend(pendingHandoffContext)
  /\ UNCHANGED << session, cmdPc, cmd, commands, currentSessionKey, lookups, messages,
                  extraction, setup, pc, running, clock, locals, files,
                  transcripts >>

\* lines 685-686: the catch forgets state.activeChatRunId
RunIdToForget(runId) == activeChatRunId

\* lines 676-691: client.sendChat of the call with that run id settles; on a
\* rejection the catch forgets a run id and clears state.activeChatRunId
SendChatSettles(runId, ok) ==
  /\ runId \in DOMAIN sends
  /\ sends[runId].status = "sending"
  /\ IF ok
       THEN /\ sends' = [sends EXCEPT ![runId].status = "waiting"]
            /\ UNCHANGED << localRunIds, activeChatRunId, chatLog >>
       ELSE /\ sends' = [sends EXCEPT ![runId].status = "error",
                                       ![runId].forgot = RunIdToForget(runId),
                                       ![runId].cleared = activeChatRunId]
            /\ localRunIds' = IF activeChatRunId # 0
                                THEN localRunIds \ { RunIdToForget(runId) }
                                ELSE localRunIds
            /\ activeChatRunId' = 0
            /\ chatLog' = Append(chatLog, "send failed")
  /\ UNCHANGED << session, cmdPc, cmd, commands, pendingHandoffContext, currentSessionKey,
                  lookups, messages, extraction, setup, pc, running, clock,
                  locals, files, transcripts >>

\* part_008 lines 431-440: setSession up to its await of loadHistory
SetSession(key) ==
  /\ key # currentSessionKey
  /\ currentSessionKey' = key
  /\ activeChatRunId' = 0
  /\ localRunIds' = {}
  /\ UNCHANGED << session, sends, cmdPc, cmd, commands, chatLog, pendingHandoffContext,
                  lookups, messages, extraction, setup, pc, running, clock,
                  locals, files, transcripts >>

\* the gateway's answers while messages are sent: a handoff is rejected or
\* succeeds without an archive, resets and history loads succeed
ChatHandoffOutcomes ==
  { o \in HandoffOutcomes :
      o.kind \in {"throw", "handoff"} /\ o.archivedTranscriptPath = Null }

NextChat ==
  \/ \E args \in {"", "quick"} : NewOrReset("new", args)
  \/ \E outcome \in ChatHandoffOutcomes : HandoffSettles(outcome)
  \/ ResetSettles(TRUE)
  \/ LoadHistorySettles(TRUE)
  \/ \E text \in Texts : SendMessage(text)
  \/ \E runId \in 1..MaxSends, ok \in BOOLEAN : SendChatSettles(runId, ok)
  \/ \E key \in SessionKeys : SetSession(key)

ChatSpec == InitCommands /\ [][NextChat]_vars

\* commands and messages of one session
NextInject ==
  \/ \E args \in {"", "quick"} : NewOrReset("new", args)
  \/ \E outcome \in ChatHandoffOutcomes : HandoffSettles(outcome)
  \/ ResetSettles(TRUE)
  \/ LoadHistorySettles(TRUE)
  \/ \E text \in Texts : SendMessage(text)
  \/ \E runId \in 1..MaxSends, ok \in BOOLEAN : SendChatSettles(runId, ok)

InjectSpec == InitCommands /\ [][NextInject]_vars

\* ---------------------------------------------------------------------
\* tui-config: saveTuiPrefs, a fire-and-forget read-modify-write of the
\* tui section of the config file

MaxSaves == 2

Unset == "unset"

PrefKeys == {"theme", "showTimestamps"}

PrefValues == {"v1", "v2"}

\* the tui section with no key set
NoPrefs == [k \in PrefKeys |-> Unset]

\* the patches a caller passes: at least one key present
Patches == [PrefKeys -> PrefValues \cup {Unset}] \ {NoPrefs}

KeysOf(patch) == {k \in PrefKeys : patch[k] # Unset}

\* { ...cfg.tui, ...patch }
Spread(tuiCfg, patch) ==
  [k \in PrefKeys |-> IF patch[k] # Unset THEN patch[k] ELSE tuiCfg[k]]

\* saveTuiPrefs(patch): starts the async block and returns at once
SaveTuiPrefs(patch) ==
  /\ Len(saves) < MaxSaves
  /\ saves' = Append(saves, [patch |-> patch, snapshot |-> NoPrefs,
                             status |-> "reading", raised |-> FALSE])
  /\ UNCHANGED << configFile, themes, base, actions >>

\* await readConfigFileSnapshot() settles; a rejection is swallowed
ReadSnapshotSettles(i, ok) ==
  /\ i \in DOMAIN saves
  /\ saves[i].status = "reading"
  /\ saves' = [saves EXCEPT ![i].snapshot = IF ok THEN configFile ELSE @,
                            ![i].status = IF ok THEN "writing" ELSE "failed"]
  /\ UNCHANGED << configFile, themes, base, actions >>

\* await writeConfigFile(cfg) settles; a rejection is swallowed
WriteConfigSettles(i, ok) ==
  /\ i \in DOMAIN saves
  /\ saves[i].status = "writing"
  /\ configFile' = IF ok THEN Spread(saves[i].snapshot, saves[i].patch)
                         ELSE configFile
  /\ saves' = [saves EXCEPT ![i].status = IF ok THEN "done" ELSE "failed"]
  /\ UNCHANGED << themes, base, actions >>

NextPrefs ==
  \/ \E patch \in Patches : SaveTuiPrefs(patch)
  \/ \E i \in 1..MaxSaves, ok \in BOOLEAN : ReadSnapshotSettles(i, ok)
  \/ \E i \in 1..MaxSaves, ok \in BOOLEAN : WriteConfigSettles(i, ok)

PrefsSpec == InitCommands /\ [][NextPrefs]_vars

\* ---------------------------------------------------------------------
\* session actions: applySessionInfo, refreshSessionInfo and
\* applySessionInfoFromPatch

MaxRefreshes == 2

MaxUpdatedAt == 2

\* the canonical key of a session key ("agent:<agentId>:<rest>")
CanonicalKeys == {"agent:main:k1", "agent:main:k2"}

Keys == SessionKeys \cup CanonicalKeys

\* parseAgentSessionKey(key)?.rest ?? key
RestOf(key) ==
  CASE key = "agent:main:k1" -> "k1"
    [] key = "agent:main:k2" -> "k2"
    [] OTHER -> key

\* normalizeAgentId(parseAgentSessionKey(key).agentId), for a canonical key
AgentOf(key) == "main"

\* updateAgentFromSessionKey(key)
AgentFromSessionKey(key) ==
  IF key \in CanonicalKeys THEN AgentOf(key) ELSE currentAgentId

\* the rows a sessions list can hold for the current session
Entries ==
  [found : {TRUE}, updatedAt : 0..MaxUpdatedAt, model : {"undefined", "m1"},
   modelProvider : {"undefined", "p1"}]

Defaults ==
  { NoDefaults,
    [given |-> TRUE, model |-> "m1", modelProvider |-> "p1",
     contextTokens |-> "c1"],
    [given |-> TRUE, model |-> "m1", modelProvider |-> "p1",
     contextTokens |-> "c2"] }

\* a ?? b on strings
Coalesce(a, b) == IF a # "undefined" THEN a ELSE b

DefaultsChanged(defaults) ==
  /\ defaults.given
  /\ \/ lastSessionDefaults.model # defaults.model
     \/ lastSessionDefaults.modelProvider # defaults.modelProvider
     \/ lastSessionDefaults.contextTokens # defaults.contextTokens

ModelChanged(entry) ==
  \/ /\ entry.modelProvider # "undefined"
     /\ entry.modelProvider # sessionInfo.modelProvider
  \/ /\ entry.model # "undefined"
     /\ entry.model # sessionInfo.model

\* an applySessionInfo without the early return
NeverSkips(entry, defaults) == FALSE

\* the early return of a non-forced older entry
SkipsOlder(entry, defaults) ==
  /\ entry.updatedAt # 0
  /\ sessionInfo.updatedAt # 0
  /\ entry.updatedAt < sessionInfo.updatedAt
  /\ ~DefaultsChanged(defaults)
  /\ ~ModelChanged(entry)

\* resolveModelSelection(entry)
ResolveModelSelection(entry) ==
  IF entry.modelProvider # "undefined" \/ entry.model # "undefined"
  THEN [modelProvider |-> Coalesce(entry.modelProvider,
                                   sessionInfo.modelProvider),
        model |-> Coalesce(entry.model, sessionInfo.model)]
  ELSE [modelProvider |-> sessionInfo.modelProvider,
        model |-> sessionInfo.model]

\* the session info the call stores when it does not return early
NextInfo(entry, defaults) ==
  LET used == IF defaults.given THEN defaults ELSE lastSessionDefaults
      selection == ResolveModelSelection(entry)
  IN  [updatedAt |-> IF entry.updatedAt # 0 THEN entry.updatedAt
                     ELSE sessionInfo.updatedAt,
       contextTokens |-> Coalesce(used.contextTokens,
                                  sessionInfo.contextTokens),
       modelProvider |-> Coalesce(selection.modelProvider,
                                  sessionInfo.modelProvider),
       model |-> Coalesce(selection.model, sessionInfo.model)]

\* applySessionInfo({ entry, defaults, force })
ApplySessionInfo(entry, defaults, force) ==
  /\ lastSessionDefaults' = IF defaults.given THEN defaults
                            ELSE lastSessionDefaults
  /\ sessionInfo' = IF ~force /\ SkipsOlder(entry, defaults)
                    THEN sessionInfo
                    ELSE NextInfo(entry, defaults)
  /\ applied' = [entry |-> entry, defaults |-> defaults, force |-> force,
                 flip |-> ~applied.flip]

\* a run of runRefreshSessionInfo may start: the promise it was chained on
\* with then(run, run) has settled
StartsAtOnce(k) == TRUE

ChainSettled(k) ==
  IF k = 1 THEN TRUE ELSE refreshes[k - 1].status = "done"

\* refreshSessionInfo(): chains a run on refreshSessionInfoPromise
RefreshSessionInfo ==
  /\ Len(refreshes) < MaxRefreshes
  /\ refreshes' = Append(refreshes, [status |-> "queued", failed |-> FALSE,
                                     resumed |-> FALSE])
  /\ UNCHANGED << info, currentAgentId, history, roster, apart, base >>

\* runRefreshSessionInfo up to the await of client.listSessions
RunStarts(k) ==
  /\ k \in DOMAIN refreshes
  /\ refreshes[k].status = "queued"
  /\ ChainSettled(k)
  /\ refreshes' = [refreshes EXCEPT ![k].status = "running"]
  /\ UNCHANGED << info, currentAgentId, history, roster, apart, base >>

\* client.listSessions resolves with the row of the current session, if any
ListSessionsResolves(k, key, entry, defaults) ==
  /\ k \in DOMAIN refreshes
  /\ refreshes[k].status = "running"
  /\ IF entry.found THEN RestOf(key) = RestOf(currentSessionKey)
                    ELSE key = "undefined"
  /\ refreshes' = [refreshes EXCEPT ![k].status = "done"]
  /\ currentAgentId' = IF entry.found /\ key # currentSessionKey
                       THEN AgentFromSessionKey(key)
                       ELSE currentAgentId
  /\ currentSessionKey' = IF entry.found THEN key ELSE currentSessionKey
  /\ ApplySessionInfo(entry, defaults, FALSE)
  /\ UNCHANGED << activeChatRunId, localRunIds, sends, cmdPc, cmd, commands,
                  chatLog, pendingHandoffContext, history, roster, apart, core >>

\* client.listSessions rejects
ListSessionsRejects(k) ==
  /\ k \in DOMAIN refreshes
  /\ refreshes[k].status = "running"
  /\ refreshes' = [refreshes EXCEPT ![k].status = "done", ![k].failed = TRUE]
  /\ chatLog' = Append(chatLog, "sessions list failed")
  /\ UNCHANGED << info, currentAgentId, chat, cmdPc, cmd, commands,
                  pendingHandoffContext, history, roster, apart, core >>

\* the await of refreshSessionInfoPromise in refreshSessionInfo settles
CallerResumes(k) ==
  /\ k \in DOMAIN refreshes
  /\ refreshes[k].status = "done"
  /\ ~refreshes[k].resumed
  /\ refreshes' = [refreshes EXCEPT ![k].resumed = TRUE]
  /\ UNCHANGED << info, currentAgentId, history, roster, apart, base >>

\* result.entry of a sessions.patch result: the provider comes from resolved
PatchEntries == {entry \in Entries : entry.modelProvider = "undefined"}

\* result.resolved of a sessions.patch result
Resolved == {[modelProvider |-> "undefined", model |-> "undefined"],
             [modelProvider |-> "p1", model |-> "m2"]}

\* applySessionInfoFromPatch(result), for the result of a patch of the
\* current session
ApplySessionInfoFromPatch(entry, key, resolved) ==
  /\ key # "undefined" => RestOf(key) = RestOf(currentSessionKey)
  /\ currentAgentId' = IF key # "undefined" /\ key # currentSessionKey
                       THEN AgentFromSessionKey(key)
                       ELSE currentAgentId
  /\ currentSessionKey' = IF key # "undefined" THEN key ELSE currentSessionKey
  /\ ApplySessionInfo(
       IF resolved.modelProvider # "undefined" \/ resolved.model # "undefined"
       THEN [entry EXCEPT
               !.modelProvider = Coalesce(resolved.modelProvider, @),
               !.model = Coalesce(resolved.model, @)]
       ELSE entry,
       NoDefaults, TRUE)
  /\ UNCHANGED << refreshes, activeChatRunId, localRunIds, sends, cmdPc, cmd,
                  commands, chatLog, pendingHandoffContext, history, roster, apart,
                  core >>

NextRefresh ==
  \/ RefreshSessionInfo
  \/ \E k \in 1..MaxRefreshes : RunStarts(k)
  \/ \E k \in 1..MaxRefreshes, key \in Keys \cup {"undefined"},
        entry \in Entries \cup {NoEntry}, defaults \in Defaults :
       ListSessionsResolves(k, key, entry, defaults)
  \/ \E k \in 1..MaxRefreshes : ListSessionsRejects(k)
  \/ \E k \in 1..MaxRefreshes : CallerResumes(k)
  \/ \E entry \in PatchEntries, key \in CanonicalKeys \cup {"undefined"},
        resolved \in Resolved : ApplySessionInfoFromPatch(entry, key, resolved)

RefreshSpec == InitCommands /\ [][NextRefresh]_vars

\* ---------------------------------------------------------------------
\* session actions: loadHistory and expandHistory

MaxLoads == 2

MaxHistory == 2

MaxExpands == 2

\* the messages of a history record, each rendered as its text
HistoryMessages ==
  {[role |-> "user", text |-> "hello"], [role |-> "assistant", text |-> "hi"]}

HistoryRecords ==
  UNION {[loaded : {TRUE}, messages : [1..n -> HistoryMessages]] :
           n \in 0..MaxHistory}

CollapsedLine == "Previous session (...). Type /history to expand."

\* chatLog after clearAll, the session line and renderHistoryMessages
RenderedLog(record) ==
  << "session" >> \o [j \in 1..Len(record.messages) |-> record.messages[j].text]

\* shouldCollapse
ShouldCollapse(record, expand) ==
  firstHistoryLoad /\ Len(record.messages) > 0 /\ ~expand

\* a load that clears firstHistoryLoad whether it succeeded or not
UsedUp(ok) == FALSE

\* firstHistoryLoad after a load: cleared in the try block only
StillFirst(ok) == IF ok THEN FALSE ELSE firstHistoryLoad

\* number of loads that have settled
Settled == Cardinality({i \in DOMAIN loads : loads[i].status # "loading"})

\* loadHistory(opts_) up to the await of client.loadHistory
LoadHistory(expand) ==
  /\ Len(loads) < MaxLoads
  /\ loads' = Append(loads, [expand |-> expand, status |-> "loading",
                             record |-> NoRecord, shown |-> << >>, at |-> 0])
  /\ UNCHANGED << firstHistoryLoad, cachedHistoryRecord, expanded, info,
                  refreshes, currentAgentId, roster, apart, base >>

\* client.loadHistory resolves: the record is cached and rendered, and a
\* refresh of the session info is requested
HistoryLoads(i, record) ==
  /\ i \in DOMAIN loads
  /\ loads[i].status = "loading"
  /\ Len(refreshes) < MaxRefreshes
  /\ cachedHistoryRecord' = record
  /\ chatLog' = IF ShouldCollapse(record, loads[i].expand)
                THEN << CollapsedLine >>
                ELSE RenderedLog(record)
  /\ firstHistoryLoad' = StillFirst(TRUE)
  /\ loads' = [loads EXCEPT ![i].status = "loaded", ![i].record = record,
                            ![i].shown = chatLog', ![i].at = Settled + 1]
  /\ refreshes' = Append(refreshes, [status |-> "queued", failed |-> FALSE,
                                     resumed |-> FALSE])
  /\ UNCHANGED << expanded, info, currentAgentId, chat, cmdPc, cmd, commands,
                  pendingHandoffContext, roster, apart, core >>

\* client.loadHistory rejects; the refresh is requested all the same
HistoryFails(i) ==
  /\ i \in DOMAIN loads
  /\ loads[i].status = "loading"
  /\ Len(refreshes) < MaxRefreshes
  /\ chatLog' = Append(chatLog, "history failed")
  /\ firstHistoryLoad' = StillFirst(FALSE)
  /\ loads' = [loads EXCEPT ![i].status = "failed", ![i].at = Settled + 1]
  /\ refreshes' = Append(refreshes, [status |-> "queued", failed |-> FALSE,
                                     resumed |-> FALSE])
  /\ UNCHANGED << cachedHistoryRecord, expanded, info, currentAgentId, chat,
                  cmdPc, cmd, commands, pendingHandoffContext, roster, apart, core >>

\* expandHistory()
ExpandHistory ==
  /\ expanded < MaxExpands
  /\ expanded' = expanded + 1
  /\ chatLog' = IF cachedHistoryRecord.loaded
                THEN RenderedLog(cachedHistoryRecord)
                ELSE Append(chatLog, "No history to expand.")
  /\ UNCHANGED << firstHistoryLoad, cachedHistoryRecord, loads, info,
                  refreshes, currentAgentId, chat, cmdPc, cmd, commands,
                  pendingHandoffContext, roster, apart, core >>

NextHistory ==
  \/ \E expand \in BOOLEAN : LoadHistory(expand)
  \/ \E i \in 1..MaxLoads, record \in HistoryRecords : HistoryLoads(i, record)
  \/ \E i \in 1..MaxLoads : HistoryFails(i)
  \/ ExpandHistory

HistorySpec == InitCommands /\ [][NextHistory]_vars

\* ---------------------------------------------------------------------
\* session actions: applyAgentsResult

MaxAgents == 2

MaxAgentCalls == 2

AgentIds == {"main", "ops", "dev"}

\* the agent lists of a result: distinct normalized ids, in order
AgentLists ==
  UNION {{list \in [1..n -> AgentIds] :
            \A i, j \in 1..n : i # j => list[i] # list[j]} :
         n \in 0..MaxAgents}

\* the initial session input of the TUI and the key it resolves to
InitialSessionInput == "k2"

ResolveSessionKey(raw) == raw

\* state.agents.some((agent) => agent.id === id)
Listed(list, id) == \E i \in DOMAIN list : list[i] = id

\* state.agents[0]?.id ?? normalizeAgentId(result.defaultId ?? currentAgentId)
FirstAgentOr(list, defaultId) ==
  IF list # << >> THEN list[1]
  ELSE IF defaultId # "undefined" THEN defaultId ELSE currentAgentId

\* applyAgentsResult(result)
ApplyAgentsResult(list, defaultId) ==
  /\ agentCalls < MaxAgentCalls
  /\ agentCalls' = agentCalls + 1
  /\ agents' = list
  /\ currentAgentId' =
       IF ~initialSessionApplied /\ initialSessionAgentId # "null"
       THEN IF Listed(list, initialSessionAgentId)
            THEN initialSessionAgentId
            ELSE currentAgentId
       ELSE IF ~Listed(list, currentAgentId)
            THEN FirstAgentOr(list, defaultId)
            ELSE currentAgentId
  /\ currentSessionKey' = IF ~initialSessionApplied
                          THEN ResolveSessionKey(InitialSessionInput)
                          ELSE currentSessionKey
  /\ resolutions' = IF ~initialSessionApplied THEN resolutions + 1
                    ELSE resolutions
  /\ initialSessionApplied' = TRUE
  /\ UNCHANGED << initialSessionAgentId, info, refreshes, history,
                  activeChatRunId, localRunIds, sends, cmdPc, cmd, commands,
                  chatLog, pendingHandoffContext, apart, core >>

NextAgents ==
  \E list \in AgentLists, defaultId \in AgentIds \cup {"undefined"} :
    ApplyAgentsResult(list, defaultId)

\* a TUI started with or without an initial agent
InitAgents ==
  /\ setup = [invocations |-> {}, sessions |-> {}, credentialed |-> {},
              again |-> FALSE]
  /\ InitProcs
  /\ listing = NoListing
  /\ latest = NoLatest
  /\ messages = <<>>
  /\ extraction = NotExtracted
  /\ InitTui
  /\ InitPrefs
  /\ InitThemes
  /\ InitActions
  /\ InitRoster(AgentIds \cup {"null"})
  /\ dirExists = FALSE
  /\ summaryFiles = [s \in Sessions |-> NoFile]
  /\ archiveFiles = [s \in Sessions |-> NoFile]

AgentsSpec == InitAgents /\ [][NextAgents]_vars

\* ---------------------------------------------------------------------
\* theme.ts: setTheme, registerTheme, getThemeName and getActivePalette

ThemeNames == {"default", "dark", "custom", "constructor"}

Palettes == {"p1", "p2", "p3"}

\* the names THEME_PRESETS, an object literal, inherits from Object.prototype
InheritedNames == {"constructor"}

\* THEME_PRESETS[name]: an own palette, an inherited member or undefined
PresetOf(name) ==
  IF presets[name] # "none" THEN presets[name]
  ELSE IF name \in InheritedNames THEN "inherited"
  ELSE "none"

\* { ...preset }: an inherited member has no own enumerable properties
SpreadOf(preset) == IF preset = "inherited" THEN "empty" ELSE preset

\* the exported objects after the first n of them were rebuilt
Rebuilt(palette, n) ==
  [i \in DOMAIN ThemeObjects |-> IF i <= n THEN palette ELSE exported[i]]

\* how far the rebuild gets: buildSettingsListTheme colours the cursor at
\* once, which chalk may refuse for a palette without colours
RebuildsOf(palette) ==
  IF palette = "empty" THEN {4, Len(ThemeObjects)} ELSE {Len(ThemeObjects)}

\* getThemeName()
GetThemeName == currentThemeName

\* getActivePalette()
GetActivePalette == activePalette

\* setTheme(name)
SetTheme(name, n) ==
  /\ IF PresetOf(name) = "none"
     THEN /\ n = Len(ThemeObjects)
          /\ lastSet' = [name |-> name, registered |-> FALSE,
                         returned |-> "false", changed |-> FALSE]
          /\ UNCHANGED << currentThemeName, activePalette, exported >>
     ELSE /\ n \in RebuildsOf(SpreadOf(PresetOf(name)))
          /\ currentThemeName' = name
          /\ activePalette' = SpreadOf(PresetOf(name))
          /\ exported' = Rebuilt(activePalette', n)
          /\ lastSet' =
               [name |-> name, registered |-> presets[name] # "none",
                returned |-> IF n = Len(ThemeObjects) THEN "true"
                             ELSE "throws",
                changed |-> << currentThemeName', activePalette', exported' >>
                            # << currentThemeName, activePalette, exported >>]
  /\ UNCHANGED << presets, prefs, actions, base >>

\* registerTheme(name, palette)
RegisterTheme(name, palette) ==
  /\ presets' = [presets EXCEPT ![name] = palette]
  /\ UNCHANGED << currentThemeName, activePalette, exported, lastSet, prefs,
                  actions, base >>

NextTheme ==
  \/ \E name \in ThemeNames, n \in 1..Len(ThemeObjects) : SetTheme(name, n)
  \/ \E name \in ThemeNames, palette \in Palettes :
       RegisterTheme(name, palette)

ThemeSpec == InitCommands /\ [][NextTheme]_vars

Next ==
  \/ Tick
  \/ \E sid \in Sessions : SessionAppends(sid)
  \/ \E p \in Procs, sid \in Sessions, n \in 0..MaxMessages : Start(p, sid, n)
  \/ \E p \in Procs, r \in ResolveOutcomes : ResolveModel(p, r)
  \/ \E p \in Procs, auth \in AuthOutcomes : GetApiKeyForModel(p, auth)
  \/ \E p \in Procs : NoWorkingModel(p)
  \/ \E p \in Procs : CallModel(p)
  \/ \E p \in Procs : TimeoutFires(p)
  \/ \E p \in Procs, content \in Responses : CompletionResolves(p, content)
  \/ \E p \in Procs : CompletionFails(p)
  \/ \E p \in Procs : CompletionAborted(p)
  \/ \E p \in Procs, found \in BOOLEAN : FindTranscript(p, found)
  \/ \E p \in Procs, mkdirOk \in BOOLEAN, copyOk \in BOOLEAN :
        ArchiveTranscript(p, mkdirOk, copyOk)
  \/ \E p \in Procs, mkdirOk \in BOOLEAN, writeOk \in BOOLEAN :
        StoreSummary(p, mkdirOk, writeOk)
  \/ \E p \in Procs : Return(p)

Spec == Init /\ [][Next]_vars

DirSpec == InitDir /\ [][Next]_vars

\* the call may never settle on its own and callers need not call again:
\* the timer, the cancellation of an aborted request and the synchronous
\* steps of a started invocation are what the event loop guarantees to run
Fairness ==
  \A p \in Procs :
    /\ WF_vars(TimeoutFires(p))
    /\ WF_vars(CompletionAborted(p))
    /\ WF_vars(\E r \in ResolveOutcomes : ResolveModel(p, r))
    /\ WF_vars(\E auth \in AuthOutcomes : GetApiKeyForModel(p, auth))
    /\ WF_vars(NoWorkingModel(p))
    /\ WF_vars(CallModel(p))
    /\ WF_vars(\E found \in BOOLEAN : FindTranscript(p, found))
    /\ WF_vars(\E m, c \in BOOLEAN : ArchiveTranscript(p, m, c))
    /\ WF_vars(\E m, w \in BOOLEAN : StoreSummary(p, m, w))
    /\ WF_vars(Return(p))

ConcSpec == InitConc /\ [][Next]_vars

LiveSpec == InitLive /\ [][Next]_vars /\ Fairness

\* ------------------------------------------------------------------ properties
Range(f) == { f[i] : i \in DOMAIN f }
Terminated(p) == pc[p] \in {"returned", "thrown"}
Did(p, name, outcome) == \E i \in DOMAIN ops[p] : ops[p][i] = [op |-> name, ok |-> outcome]

ExpectedOrder ==
  << <<"agent", "/", "default">>,
     <<"anthropic", "/", "claude-sonnet-4-5">>,
     <<"anthropic", "/", "claude-haiku-4-5">>,
     <<"google", "/", "gemini-2.0-flash">>,
     <<"openai", "/", "gpt-4o-mini">> >>

\* C1: the candidates are probed in the order agent default, sonnet, haiku,
\* gemini, gpt-4o-mini without skipping any; the candidate selected, whose
\* model the completion call is given, is the first one probed that has a
\* model and a non-blank key, and nothing after it is probed
FallbackOrderPreserved ==
  \A p \in Procs :
    /\ \A i \in DOMAIN probed[p] : probed[p][i].ref = i
    /\ Len(probed[p]) <= 5
    /\ usedRef[p] = 0 => \A i \in DOMAIN probed[p] : ~probed[p][i].usable
    /\ usedRef[p] # 0 =>
         /\ Len(probed[p]) = usedRef[p]
         /\ probed[p][usedRef[p]].usable
         /\ \A i \in 1..(usedRef[p] - 1) : ~probed[p][i].usable
    /\ \A i \in DOMAIN requests[p] :
         /\ usedRef[p] # 0
         /\ RefName(requests[p][i].model) = ExpectedOrder[usedRef[p]]
         /\ requests[p][i].apiKey = <<"k">>

ThirdCandidateSelected ==
  \E p \in Procs :
    /\ usedRef[p] = 3
    /\ Len(requests[p]) = 1
    /\ requests[p][1].model.model = "claude-haiku-4-5"

\* C2: when all five candidates were probed and none is usable the invocation
\* throws the error that lists the five provider/model pairs in candidate
\* order; that error is thrown only then, with no completion request issued
\* and no file operation done
NoWorkingModelListsAll ==
  \A p \in Procs :
    /\ error[p].kind = "NoWorkingModel" =>
         /\ pc[p] = "thrown"
         /\ error[p].tried = ExpectedOrder
         /\ Len(probed[p]) = 5
         /\ \A i \in DOMAIN probed[p] : ~probed[p][i].usable
         /\ requests[p] = <<>>
         /\ ops[p] = <<>>
    /\ (Len(probed[p]) = 5 /\ \A i \in DOMAIN probed[p] : ~probed[p][i].usable) =>
         \/ pc[p] = "loop" /\ running = p
         \/ pc[p] = "thrown" /\ error[p].kind = "NoWorkingModel"

AllCandidatesFailed ==
  \E p \in Procs : pc[p] = "thrown" /\ error[p].kind = "NoWorkingModel"

\* C3: an invocation whose transcript has no messages has returned, with
\* messageCount 0 and archivedTranscriptPath null, having probed no
\* candidate, issued no completion request and done no file operation
EmptySessionReturnsAtOnce ==
  \A p \in Procs :
    (pc[p] # "idle" /\ messageCount[p] = 0) =>
       /\ pc[p] = "returned"
       /\ result[p].messageCount = 0
       /\ result[p].archivedTranscriptPath = Null
       /\ probed[p] = <<>>
       /\ requests[p] = <<>>
       /\ ops[p] = <<>>

EmptySessionReturned ==
  \E p \in Procs :
    pc[p] = "returned" /\ messageCount[p] = 0 /\ result[p].messageCount = 0

\* C4: at the return of a successful handoff of session S, the summary file
\* of S without its header is the summary of that handoff, and S is the first
\* entry of the list listHandoffSummaries returns (files of equal creation
\* time taken in the order that suits the claim best)
RoundTripAndMostRecent ==
  \A p \in Procs :
    pc[p] = "return" =>
      /\ StripHeader(readHandoffSummary(sessionId[p])) = summary[p]
      /\ \E l \in listHandoffSummaries :
           l # <<>> /\ l[1].sessionId = sessionId[p]

\* the transcript was not found, or the try block of the archive step threw
ArchiveFailed(p) ==
  \/ Did(p, "find", FALSE)
  \/ Did(p, "mkdirArchive", FALSE)
  \/ Did(p, "copy", FALSE)

\* C5 as stated: an invocation whose archive step failed does not throw, it
\* returns a result with archivedTranscriptPath null and a summaryPath
ArchiveFailureNeverThrows ==
  \A p \in Procs :
    (ArchiveFailed(p) /\ Terminated(p)) =>
       /\ pc[p] = "returned"
       /\ result[p].archivedTranscriptPath = Null
       /\ result[p].summaryPath # <<>>

\* C5 amended: a failed archive step does not by itself make the invocation
\* throw: the invocation goes on to the summary write with
\* archivedTranscriptPath null, throws only if creating the directory or
\* writing the summary file fails, and otherwise writes the summary file and
\* returns archivedTranscriptPath null and a non-empty summaryPath
ArchiveFailureIsNotFatal ==
  \A p \in Procs :
    ArchiveFailed(p) =>
       /\ pc[p] \in {"store", "return", "returned", "thrown"}
       /\ archivedTranscriptPath[p] = Null
       /\ pc[p] = "thrown" =>
            /\ error[p].kind \in {"MkdirError", "WriteError"}
            /\ Did(p, "mkdir", FALSE) \/ Did(p, "write", FALSE)
       /\ (Did(p, "write", TRUE) /\ Terminated(p)) => pc[p] = "returned"
       /\ pc[p] = "returned" =>
            /\ Did(p, "write", TRUE)
            /\ summaryFiles[sessionId[p]].exists
            /\ result[p].archivedTranscriptPath = Null
            /\ result[p].summaryPath = HandoffPath(sessionId[p], ".md")
            /\ result[p].summaryPath # <<>>

ReturnedAfterCopyFailure ==
  \E p \in Procs :
    /\ pc[p] = "returned"
    /\ Did(p, "copy", FALSE)
    /\ result[p].archivedTranscriptPath = Null

\* C6: a completion call in flight does not stay in flight for ever, and
\* once the timer has aborted the signal the invocation ends by throwing
HandoffDoesNotHang ==
  \A p \in Procs :
    /\ (pc[p] = "awaitComplete") ~> (pc[p] # "awaitComplete")
    /\ (pc[p] = "awaitComplete" /\ aborted[p]) ~>
         (pc[p] = "thrown" /\ error[p].kind = "Aborted")

TimedOut ==
  \E p \in Procs :
    pc[p] = "thrown" /\ error[p].kind = "Aborted" /\ timeout[p] = "fired"

\* C7: the timer is armed only while the completion call is in flight, so
\* that none is armed once the invocation has returned or thrown; and the
\* signal has aborted only during the call: after the call it is aborted
\* only if the abort is what ended the call
TimerArmedOnlyInFlight ==
  \A p \in Procs :
    /\ timeout[p] = "armed" => pc[p] = "awaitComplete"
    /\ pc[p] \in {"archive", "copy", "store", "return", "returned", "thrown"} =>
         timeout[p] \in {"none", "cleared", "fired"}
    /\ timeout[p] = "fired" <=> aborted[p]
    /\ aborted[p] =>
         \/ pc[p] = "awaitComplete"
         \/ pc[p] = "thrown" /\ error[p].kind = "Aborted"

TimerClearedOnThrow ==
  \E p \in Procs :
    pc[p] = "thrown" /\ error[p].kind = "ProviderError" /\ timeout[p] = "cleared"

CallFailures == {"EmptySummary", "ProviderError", "Aborted"}

\* C8: an invocation issues at most one completion request; when the
\* request fails, is aborted or yields no text the invocation has thrown,
\* with that one request issued and no candidate probed after the selected one
AtMostOneCompletionRequest ==
  \A p \in Procs :
    /\ Len(requests[p]) <= 1
    /\ error[p].kind \in CallFailures =>
         /\ pc[p] = "thrown"
         /\ Len(requests[p]) = 1
         /\ Len(probed[p]) = usedRef[p]
         /\ ops[p] = <<>>

ThrownAfterEmptySummary ==
  \E p \in Procs :
    /\ pc[p] = "thrown"
    /\ error[p].kind = "EmptySummary"
    /\ Len(requests[p]) = 1
    /\ usedRef[p] < 5

\* C9: an invocation with a non-empty transcript has returned a result only
\* if it wrote the summary file, which then exists; when creating the
\* directory or writing the file failed it has thrown and returned nothing
SummaryWrittenOrThrown ==
  \A p \in Procs :
    /\ (pc[p] = "returned" /\ messageCount[p] > 0) =>
         /\ Did(p, "write", TRUE)
         /\ dirExists
         /\ summaryFiles[sessionId[p]].exists
         /\ result[p].summaryPath = HandoffPath(sessionId[p], ".md")
    /\ (Did(p, "mkdir", FALSE) \/ Did(p, "write", FALSE)) =>
         /\ pc[p] = "thrown"
         /\ result[p] = NoResult

ThrownOnWriteFailure ==
  \E p \in Procs :
    pc[p] = "thrown" /\ error[p].kind = "WriteError" /\ Did(p, "write", FALSE)

\* C10: an invocation does file operations only once its completion call
\* has returned a non-empty summary, and it has looked for and, when found,
\* tried to copy the transcript before it writes the summary file
FilesOnlyAfterSummary ==
  \A p \in Procs :
    /\ ops[p] # <<>> =>
         /\ summary[p] # <<>>
         /\ Len(requests[p]) = 1
         /\ error[p].kind \notin CallFailures
    /\ \A i \in DOMAIN ops[p] :
         ops[p][i].op \in {"mkdir", "write"} =>
           /\ ops[p][1].op = "find"
           /\ \A j \in DOMAIN ops[p] :
                ops[p][j].op \in {"find", "mkdirArchive", "copy"} => j < i

CopiedThenWritten ==
  \E p \in Procs :
    /\ Did(p, "copy", TRUE)
    /\ Did(p, "write", TRUE)
    /\ archiveFiles[sessionId[p]].exists
    /\ summaryFiles[sessionId[p]].exists

\* ---------------------------------------------------------------------------
\* the bytes invocation p writes to its summary file (lines 352-361), as seen
\* in the synchronous stretch of the write
WrittenBy(p) ==
  summaryHeader(sessionId[p], SessionKey(sessionId[p]), clock,
                messageCount[p], fallbackRefs[usedRef[p]]) \o summary[p]

\* the summary file of p's session was there before p wrote it: an earlier
\* handoff of the same session succeeded
Rewritten(p) ==
  /\ pc[p] = "return"
  /\ summaryFiles[sessionId[p]].birthtime < clock

HandoffStep ==
  \/ running # None
  \/ pc' # pc

\* C15: no step of performSessionHandoff deletes, moves or changes a
\* transcript file, whatever its outcome; and when the archive step succeeds
\* the source is still there and the archived copy has the source's content.
TranscriptLeftInPlace ==
  [][ /\ HandoffStep => transcripts' = transcripts
      /\ \A p \in Procs :
           (archivedTranscriptPath[p] = Null /\ archivedTranscriptPath'[p] # Null)
             => /\ transcripts'[sessionId[p]].exists
                /\ archiveFiles'[sessionId[p]].exists
                /\ archiveFiles'[sessionId[p]].content =
                     transcripts'[sessionId[p]].content ]_vars

\* an invocation has archived a transcript of two messages and gone on
ArchivedAndSourceKept ==
  \E p \in Procs :
    /\ pc[p] \in {"store", "return", "returned", "thrown"}
    /\ Did(p, "copy", TRUE)
    /\ transcripts[sessionId[p]].exists
    /\ Len(transcripts[sessionId[p]].content) = 2
    /\ archiveFiles[sessionId[p]].content = transcripts[sessionId[p]].content

\* ---------------------------------------------------------------------------
\* C12: however concurrent invocations interleave, the summary file and the
\* archive of a session are created or changed only by an invocation for
\* that session, and every write of a summary file installs the header and
\* the body of the writing invocation, so that the file is wholly the one of
\* its last writer.
OwnFilesOnly ==
  [][ \A s \in Sessions :
        /\ (summaryFiles'[s] # summaryFiles[s] \/ archiveFiles'[s] # archiveFiles[s])
             => /\ running # None
                /\ sessionId[running] = s
        /\ summaryFiles'[s] # summaryFiles[s]
             => summaryFiles'[s].content = WrittenBy(running) ]_vars

\* an invocation has written the summary of a session while another
\* invocation for the same session awaits its completion call, and a third
\* party's session has no file
ConcurrentWriters ==
  /\ pc["h1"] = "awaitComplete"
  /\ pc["h2"] = "return"
  /\ sessionId["h1"] = "s1"
  /\ sessionId["h2"] = "s1"
  /\ summaryFiles["s1"].content = WrittenBy("h2")
  /\ ~summaryFiles["s2"].exists

\* ---------------------------------------------------------------------------
\* the *.md files of the directory whose statSync did not throw
Statable(unstatable) == ListedSessions \ unstatable

\* C13: listHandoffSummaries returns exactly one entry per *.md file that can
\* be stat'ed and none for any other file, with creation times that never
\* increase along the list; a file whose stat fails is left out without
\* failing the call, and a missing directory gives the empty list.
ListsStatableNewestFirst ==
  listing.called =>
    LET l == listing.entries IN
    /\ { l[i].sessionId : i \in DOMAIN l } = Statable(listing.unstatable)
    /\ Len(l) = Cardinality(Statable(listing.unstatable))
    /\ \A i \in DOMAIN l :
         /\ l[i].path = HandoffPath(l[i].sessionId, ".md")
         /\ l[i].createdAt = summaryFiles[l[i].sessionId].birthtime
    /\ \A i, j \in DOMAIN l : i < j => l[i].createdAt >= l[j].createdAt
    /\ ~dirExists => l = <<>>

\* a listing of a directory with an older and a newer summary, an archive
\* and a summary that could not be stat'ed
ListedOneOfTwo ==
  /\ listing.called
  /\ listing.unstatable = {"s2"}
  /\ summaryFiles["s2"].exists
  /\ archiveFiles["s1"].exists
  /\ Len(listing.entries) = 1

\* ---------------------------------------------------------------------------
\* the sessions in S whose summary file is the newest of those in S
Newest(S) ==
  { sid \in S :
      \A other \in S : summaryFiles[sid].birthtime >= summaryFiles[other].birthtime }

\* C14 as stated: readLatestHandoffSummary returns null exactly when the
\* directory holds no summary file, and otherwise the content and the
\* session id of the summary file with the latest creation time.
NullOnlyForEmptyDirectory ==
  latest.called =>
    /\ latest.value.null <=> ListedSessions = {}
    /\ ~latest.value.null =>
         /\ latest.value.sessionId \in Newest(ListedSessions)
         /\ latest.value.summary = summaryFiles[latest.value.sessionId].content

\* C14 amended: readLatestHandoffSummary returns null when no summary file
\* of the directory can be stat'ed, and also when the newest file that can
\* be stat'ed cannot be read or is empty; otherwise it returns the content
\* and the session id of a newest summary file among those that can be
\* stat'ed.
NullForNothingReadable ==
  latest.called =>
    LET statable == Statable(latest.unstatable)
        unusable == { sid \in statable :
                        \/ sid \in latest.unreadable
                        \/ summaryFiles[sid].content = <<>> }
    IN
    /\ statable = {} => latest.value.null
    /\ latest.value.null =>
         statable = {} \/ Newest(statable) \cap unusable # {}
    /\ Newest(statable) \subseteq unusable => latest.value.null
    /\ ~latest.value.null =>
         /\ latest.value.sessionId \in Newest(statable) \ unusable
         /\ latest.value.summary = summaryFiles[latest.value.sessionId].content
         /\ latest.value.summary # <<>>

\* a lookup that returned the older summary because the newer one could not
\* be stat'ed
OlderSummaryReturned ==
  /\ latest.called
  /\ ~latest.value.null
  /\ latest.unstatable # {}
  /\ \E sid \in ListedSessions :
       summaryFiles[sid].birthtime > summaryFiles[latest.value.sessionId].birthtime

\* ---------------------------------------------------------------------------
\* C16: extractTranscriptText never throws, whatever the entries.
ExtractNeverThrows ==
  extraction.called => ~extraction.threw

\* ---------------------------------------------------------------------------
\* the lines of the last extraction, joined as line 104 joins them
Joined == Join(extraction.lines, << "\n", "\n" >>)

\* how often needle occurs in hay
Occurrences(hay, needle) ==
  Cardinality({ i \in 1..(Len(hay) - Len(needle) + 1) :
                  /\ hay[i] = needle[1]
                  /\ SubSeq(hay, i, i + Len(needle) - 1) = needle })

HalfCap == MAX_TRANSCRIPT_CHARS \div 2
FirstHalf == SubSeq(Joined, 1, HalfCap)
LastHalf == SubSeq(Joined, Len(Joined) - HalfCap + 1, Len(Joined))

\* C17 as stated: a joined text longer than the cap is returned with length
\* at most the cap plus the length of the marker, beginning with the first
\* half-cap characters, ending with the last half-cap characters, and
\* holding the marker exactly once; a joined text within the cap is
\* returned unchanged.
CappedWithOneMarker ==
  (extraction.called /\ ~extraction.threw) =>
    IF Len(Joined) > MAX_TRANSCRIPT_CHARS
      THEN /\ Len(extraction.text) <= MAX_TRANSCRIPT_CHARS + Len(MarkerText)
           /\ SubSeq(extraction.text, 1, HalfCap) = FirstHalf
           /\ SubSeq(extraction.text, Len(extraction.text) - HalfCap + 1,
                     Len(extraction.text)) = LastHalf
           /\ Occurrences(extraction.text, MarkerText) = 1
      ELSE extraction.text = Joined

\* C17 amended: a joined text longer than the cap is returned as its first
\* half-cap characters, the marker with a blank line before and after it,
\* and its last half-cap characters: the length is the cap plus the length
\* of the marker plus four, and the marker occurs once more than in the two
\* halves that were kept; a joined text within the cap is returned unchanged.
CappedAroundMarker ==
  (extraction.called /\ ~extraction.threw) =>
    IF Len(Joined) > MAX_TRANSCRIPT_CHARS
      THEN /\ Len(extraction.text) = MAX_TRANSCRIPT_CHARS + Len(MarkerText) + 4
           /\ SubSeq(extraction.text, 1, HalfCap) = FirstHalf
           /\ SubSeq(extraction.text, HalfCap + 1, HalfCap + Len(MarkerText) + 4)
                = << "\n", "\n" >> \o MarkerText \o << "\n", "\n" >>
           /\ SubSeq(extraction.text, Len(extraction.text) - HalfCap + 1,
                     Len(extraction.text)) = LastHalf
           /\ Occurrences(extraction.text, MarkerText) =
                1 + Occurrences(FirstHalf, MarkerText)
                  + Occurrences(LastHalf, MarkerText)
      ELSE extraction.text = Joined

\* a transcript one character over the cap was capped
CappedJustOverCap ==
  /\ extraction.called
  /\ Len(Joined) = MAX_TRANSCRIPT_CHARS + 1
  /\ Len(extraction.text) > MAX_TRANSCRIPT_CHARS

\* ---------------------------------------------------------------------------
\* the entries whose line the extraction emits, in order
Emitted ==
  SelectSeq(messages,
            LAMBDA m : ~IsSystem(RoleOf(m)) /\ Trim(TextOf(m)) # <<>>)

\* line ends with suffix
EndsWith(line, suffix) ==
  /\ Len(line) >= Len(suffix)
  /\ SubSeq(line, Len(line) - Len(suffix) + 1, Len(line)) = suffix

\* C18 as stated: the line of a message whose text is longer than 5000
\* characters ends with "... [truncated]" and has length exactly 5000 plus
\* the length of that marker; a message of at most 5000 characters is
\* emitted untruncated.
LineIsCapPlusSuffix ==
  (extraction.called /\ ~extraction.threw) =>
    /\ Len(extraction.lines) = Len(Emitted)
    /\ \A i \in DOMAIN extraction.lines :
         LET line == extraction.lines[i]
             text == TextOf(Emitted[i])
         IN IF Len(text) > MAX_MESSAGE_CHARS
              THEN /\ EndsWith(line, TruncatedSuffix)
                   /\ Len(line) = MAX_MESSAGE_CHARS + Len(TruncatedSuffix)
              ELSE EndsWith(line, text)

\* C18 amended: the line of a message is "[role]: " followed by the
\* message's text; a text longer than 5000 characters is replaced by its
\* first 5000 characters and "... [truncated]", so that the part of the
\* line after the role prefix has length exactly 5000 plus the length of
\* the marker; a text of at most 5000 characters follows the prefix as it is.
LineIsPrefixCapSuffix ==
  (extraction.called /\ ~extraction.threw) =>
    /\ Len(extraction.lines) = Len(Emitted)
    /\ \A i \in DOMAIN extraction.lines :
         LET line == extraction.lines[i]
             text == TextOf(Emitted[i])
             prefix == << "[" >> \o RoleOf(Emitted[i]) \o << "]", ":", " " >>
         IN IF Len(text) > MAX_MESSAGE_CHARS
              THEN /\ EndsWith(line, TruncatedSuffix)
                   /\ Len(line) =
                        Len(prefix) + MAX_MESSAGE_CHARS + Len(TruncatedSuffix)
                   /\ SubSeq(line, 1, Len(prefix) + MAX_MESSAGE_CHARS)
                        = prefix \o SubSeq(text, 1, MAX_MESSAGE_CHARS)
              ELSE line = prefix \o text

\* a message one character over the cap was emitted, cut and marked
CutJustOverCap ==
  /\ extraction.called
  /\ Len(messages) = 1
  /\ Len(TextOf(messages[1])) = MAX_MESSAGE_CHARS + 1
  /\ Len(extraction.lines) = 1
  /\ EndsWith(extraction.lines[1], TruncatedSuffix)

\* ---------------------------------------------------------------------------
\* line begins with prefix
StartsWith(line, prefix) ==
  /\ Len(line) >= Len(prefix)
  /\ SubSeq(line, 1, Len(prefix)) = prefix

\* a text with nothing but white space
Blank(text) == \A i \in DOMAIN text : text[i] \in Whitespace

\* the entries that are system messages, and those whose text is blank
SystemEntries ==
  { i \in DOMAIN messages : messages[i].role = Str(<< "s", "y", "s", "t", "e", "m" >>) }
BlankEntries == { i \in DOMAIN messages : Blank(TextOf(messages[i])) }

\* C19: a system message contributes no line, and neither does a message
\* whose text is empty or only white space: there is one line per other
\* message, no line carries the system role, and a transcript of system
\* messages only extracts to the empty string.
SystemAndBlankSkipped ==
  (extraction.called /\ ~extraction.threw) =>
    /\ Len(extraction.lines) =
         Cardinality(DOMAIN messages \ (SystemEntries \cup BlankEntries))
    /\ \A i \in DOMAIN extraction.lines :
         ~StartsWith(extraction.lines[i],
                     << "[", "s", "y", "s", "t", "e", "m", "]" >>)
    /\ DOMAIN messages \subseteq (SystemEntries \cup BlankEntries)
         => extraction.text = <<>>

\* a transcript of a system message with text and a user message with text
\* gave one line
SystemMessageSkipped ==
  /\ extraction.called
  /\ Len(messages) = 2
  /\ 1 \in SystemEntries \ BlankEntries
  /\ Len(extraction.lines) = 1

\* ---------------------------------------------------------------------------
\* the calls of the command being handled with that name and outcome
CallsOf(name, outcomes) ==
  { i \in DOMAIN cmd.calls :
      cmd.calls[i].call = name /\ cmd.calls[i].outcome \in outcomes }

\* the chat lines of the command being handled
Said == { chatLog[i] : i \in (cmd.logStart + 1)..Len(chatLog) }

AnyOutcome == { "throw", "undefined", "notOk", "okNoHandoff", "handoff", "ok" }

\* C20: a /new or /reset command that ends without failing has reset the
\* session exactly once, by a successful handoff or by one resetSession
\* call; resetSession follows a handoff only when the handoff threw or gave
\* no successful result, and is the only call with the argument "quick";
\* a handoff that throws is reported as skipped, and "reset failed" is
\* reported only when resetSession or loadHistory threw.
ResetsExactlyOnce ==
  /\ (cmdPc = "done" /\ ~cmd.failed) =>
       /\ Cardinality(CallsOf("handoffSession", {"handoff"}))
            + Cardinality(CallsOf("resetSession", {"ok"})) = 1
       /\ Cardinality(CallsOf("resetSession", AnyOutcome)) <= 1
       /\ "reset failed" \notin Said
  /\ CallsOf("handoffSession", {"handoff"}) # {}
       => CallsOf("resetSession", AnyOutcome) = {}
  /\ (cmdPc # "idle" /\ ToLowerCase(cmd.args) = "quick")
       => CallsOf("handoffSession", AnyOutcome) = {}
  /\ (cmdPc = "done" /\ ToLowerCase(cmd.args) # "quick")
       => Cardinality(CallsOf("handoffSession", AnyOutcome)) = 1
  /\ CallsOf("handoffSession", {"throw"}) # {}
       => "handoff summary skipped (model unavailable), resetting..." \in Said
  /\ "reset failed" \in Said
       => CallsOf("resetSession", {"throw"}) \cup CallsOf("loadHistory", {"throw"}) # {}

\* a command whose handoff threw was completed by a plain reset
ResetAfterThrownHandoff ==
  /\ cmdPc = "done"
  /\ ~cmd.failed
  /\ CallsOf("handoffSession", {"throw"}) # {}
  /\ CallsOf("resetSession", {"ok"}) # {}
  /\ "reset failed" \notin Said

\* ---------------------------------------------------------------------------
\* the message of a send holds that context between the header and the text
Injected(send, context) ==
  /\ Len(send.message) = Len(context) + 6
  /\ SubSeq(send.message, 3, Len(context) + 2) = context
  /\ send.message[Len(send.message)] = send.text

\* C21: a sendMessage call prepends the context that is pending when it
\* runs and leaves state.pendingHandoffContext null; a message sent while
\* nothing is pending is sent as it is; and the summary of one handoff is
\* never prepended to two messages.
ContextInjectedOnce ==
  [][ Len(sends') = Len(sends) + 1 =>
        LET send == sends'[Len(sends')] IN
        /\ pendingHandoffContext' = Null
        /\ pendingHandoffContext = Null => send.message = << send.text >>
        /\ pendingHandoffContext # Null => Injected(send, pendingHandoffContext)
        /\ \A j \in DOMAIN sends :
             sends[j].context # Null => ~Injected(send, sends[j].context) ]_vars

\* the first message after a successful handoff carried the summary, the
\* second was sent as it is
SecondMessageUnmodified ==
  /\ Len(sends) = 2
  /\ Injected(sends[1], SummaryOfSession("k1", 1))
  /\ sends[2].message = << sends[2].text >>
  /\ pendingHandoffContext = Null

\* ---------------------------------------------------------------------------
\* C26: when the sendChat of a sendMessage call fails, the run id that is
\* forgotten and cleared from state.activeChatRunId is the one that call
\* created, and that run id is no longer noted.
FailedSendForgetsOwnRunId ==
  \A runId \in DOMAIN sends :
    sends[runId].status = "error" =>
      /\ sends[runId].forgot \in {0, runId}
      /\ sends[runId].cleared \in {0, runId}
      /\ runId \notin localRunIds

\* ---------------------------------------------------------------------------
\* C27: a context that sendMessage prepends is the summary of the most
\* recent handoff of the session key the message is sent to, and no /new or
\* /reset has gone past its handoff since without replacing it.
ContextOfCurrentSession ==
  \A i \in DOMAIN sends :
    sends[i].context # Null =>
      sends[i].context = SummaryOfSession(sends[i].sessionKey, sends[i].pastCommands)

\* C22 (as stated): once every saveTuiPrefs call has completed and the calls'
\* patches have pairwise disjoint keys, the config file holds the value of
\* every patched key.
BothPatchesKept ==
  ( /\ \A i \in DOMAIN saves : saves[i].status = "done"
    /\ \A i, j \in DOMAIN saves :
         i # j => KeysOf(saves[i].patch) \cap KeysOf(saves[j].patch) = {} )
  => \A i \in DOMAIN saves : \A k \in KeysOf(saves[i].patch) :
       configFile[k] = saves[i].patch[k]

\* C24: runs of runRefreshSessionInfo never overlap; a run has started only
\* when every refresh requested before it has finished, whether it failed
\* or not; and a caller of refreshSessionInfo resumes only after the run of
\* its own call has finished.
RefreshesInOrder ==
  /\ Cardinality({k \in DOMAIN refreshes :
                    refreshes[k].status = "running"}) <= 1
  /\ \A k \in DOMAIN refreshes :
       refreshes[k].status # "queued" =>
         \A j \in 1..(k - 1) : refreshes[j].status = "done"
  /\ \A k \in DOMAIN refreshes :
       refreshes[k].resumed => refreshes[k].status = "done"

\* a refresh runs after the refresh requested before it has failed
RunsAfterFailedRefresh ==
  /\ Len(refreshes) >= 2
  /\ refreshes[1].failed
  /\ refreshes[2].status = "running"

\* the call supplies defaults that differ from the last defaults
SuppliesOtherDefaults(call) ==
  call.defaults.given /\ call.defaults # lastSessionDefaults

\* the entry names a model or provider other than the stored one
NamesOtherModel(call) ==
  \/ call.entry.model \notin {"undefined", sessionInfo.model}
  \/ call.entry.modelProvider \notin {"undefined", sessionInfo.modelProvider}

\* the entry has an updatedAt older than the stored one
OlderEntry(call) ==
  /\ call.entry.found
  /\ call.entry.updatedAt # 0
  /\ sessionInfo.updatedAt # 0
  /\ call.entry.updatedAt < sessionInfo.updatedAt

\* C25: an applySessionInfo call leaves state.sessionInfo unchanged for a
\* non-forced entry with an older updatedAt, unless the call supplies
\* defaults that differ from the last defaults or the entry names another
\* model or provider; a forced call stores what its entry carries.
OlderEntryLeavesInfo ==
  [][ applied'.flip # applied.flip =>
        /\ ( /\ ~applied'.force
             /\ OlderEntry(applied')
             /\ ~SuppliesOtherDefaults(applied')
             /\ ~NamesOtherModel(applied') )
           => sessionInfo' = sessionInfo
        /\ applied'.force =>
             /\ applied'.entry.updatedAt # 0 =>
                  sessionInfo'.updatedAt = applied'.entry.updatedAt
             /\ applied'.entry.model # "undefined" =>
                  sessionInfo'.model = applied'.entry.model
             /\ applied'.entry.modelProvider # "undefined" =>
                  sessionInfo'.modelProvider = applied'.entry.modelProvider
    ]_vars

\* a non-forced entry older than the stored session info was not applied
OlderEntrySkipped ==
  /\ applied.entry.found
  /\ ~applied.force
  /\ applied.entry.updatedAt # 0
  /\ applied.entry.updatedAt < sessionInfo.updatedAt

\* the loads that succeeded
Loaded == {i \in DOMAIN loads : loads[i].status = "loaded"}

\* the first load that succeeded
FirstLoaded(i) ==
  i \in Loaded /\ \A j \in Loaded : loads[i].at <= loads[j].at

\* the load rendered every message of its record
ShowsAll(load) ==
  /\ Len(load.shown) = 1 + Len(load.record.messages)
  /\ \A j \in 1..Len(load.record.messages) :
       load.shown[j + 1] = load.record.messages[j].text

\* a successful load shows the collapsed summary exactly when it is the
\* first load of the run to succeed, whatever failed before it, its history
\* has at least one message and expand was not requested; every other
\* successful load renders all the messages of its record
CollapsedOnlyAtFirstLoad ==
  \A i \in Loaded :
    IF FirstLoaded(i) /\ Len(loads[i].record.messages) >= 1
       /\ ~loads[i].expand
    THEN loads[i].shown = << CollapsedLine >>
    ELSE ShowsAll(loads[i])

\* the record of the most recent successful load
LastLoaded ==
  CHOOSE i \in Loaded : \A j \in Loaded : loads[j].at <= loads[i].at

\* expandHistory renders every message of the record of the most recent
\* successful load, and reports 'No history to expand.' when there is none
ExpandRendersCached ==
  expanded' # expanded =>
    IF Loaded = {}
    THEN chatLog' = Append(chatLog, "No history to expand.")
    ELSE ShowsAll([record |-> loads[LastLoaded].record, shown |-> chatLog'])

CurrentAgentListed ==
  (agentCalls > 0 /\ agents # << >>) =>
    \E i \in DOMAIN agents : agents[i] = currentAgentId

\* the initial session input is resolved into the session key by the first
\* applyAgentsResult call and by no later one
InitialSessionOnce ==
  /\ resolutions = (IF agentCalls > 0 THEN 1 ELSE 0)
  /\ agentCalls > 0 => initialSessionApplied

\* C28 (as stated): after every applyAgentsResult call with a non-empty
\* agent list state.currentAgentId is the id of a listed agent, and the
\* initial session input is resolved into state.currentSessionKey exactly
\* once, by the first call.
AgentListedAndSessionOnce == CurrentAgentListed /\ InitialSessionOnce

\* C29 (as stated): getThemeName() names a registered preset,
\* getActivePalette() equals the palette registered under that name, and a
\* setTheme call with an unregistered name returned false and left the
\* theme name, the active palette and the exported theme objects unchanged.
ActiveThemeRegistered ==
  /\ presets[GetThemeName] # "none"
  /\ GetActivePalette = presets[GetThemeName]
  /\ ~lastSet.registered => lastSet.returned = "false" /\ ~lastSet.changed

=============================================================================
